---------------------------- MODULE Spec2Model ----------------------------
(***************************************************************************)
(* A model of the file system providers of vs/platform/files:              *)
(*   - AbstractDiskFileSystemProvider (src/unnamed/part_000): the registry  *)
(*     of recursive watch requests, the debounced reconciliation of the    *)
(*     single recursive watcher, the non-recursive watchers and the        *)
(*     log-level wiring;                                                   *)
(*   - IPCFileSystemProvider (src/unnamed/part_001): readFileStream with    *)
(*     cancellation, read, and the session based watch protocol.           *)
(* Each part has its own specification over the shared variables: Spec and  *)
(* SpecLog (disk provider), SpecStream (readFileStream), SpecRead (read)    *)
(* and SpecWatch (the watch protocol of the IPC provider).                  *)
(***************************************************************************)
EXTENDS Integers, Sequences, FiniteSets, TLC

\* ------------------------------------------------------------------ bounds
\* recursive watch() calls made on the disk provider
MaxRecursive == 2
\* non-recursive watch() calls made on the disk provider
MaxNonRecursive == 2
\* events the remote side emits on one readFileStream event stream
MaxEvents == 3
\* length of the buffer the caller of read() passes
MaxBuffer == 3
\* length of the buffer the remote side replies to 'read' with
MaxReplyLen == 2
\* watch() calls made on the IPC provider
MaxWatch == 3
\* log messages the watchers of the disk provider report
MaxMessages == 2
\* payloads the remote side sends on the 'filechange' stream of the session
MaxFileChanges == 3
\* file operations called on the IPC provider, one after the other
MaxOps == 2
\* setCaseSensitive calls made on the IPC provider
MaxCaseCalls == 3

\* ------------------------------------------------------------- value sets
Paths == {"a", "b"}
\* IWatchOptions.excludes: a list of glob patterns
ExcludeLists == {<<>>, <<"x">>}
\* the (path, excludes) pairs callers ask for: equal ones, ones that differ in
\* the path only and ones that differ in the excludes only
Requests == {<<"a", <<>>>>, <<"a", <<"x">>>>, <<"b", <<>>>>}
\* LogLevel of vs/platform/log: Trace is the most detailed level
LogLevels == {"Trace", "Debug", "Info"}

\* the chunks of a file
Chunks == {"A", "B"}

RecIds == 1..MaxRecursive
NonRecIds == 1..MaxNonRecursive
\* readFileStream calls that may be in flight together
CallIds == {1, 2}
\* the values of a byte that are told apart
ByteValues == {0, 1}
\* file positions and file descriptors read() is called with
Positions == {0, 10}
Fds == {3}
WatchIds == 1..MaxWatch
\* ILogMessage: the kind is the name of a method of ILogService
LogMessages ==
    { [type |-> "error", message |-> "e1"], [type |-> "error", message |-> "e2"],
      [type |-> "warn", message |-> "w1"], [type |-> "trace", message |-> "t1"] }

VARIABLES
    \* --- AbstractDiskFileSystemProvider
    recursiveFoldersToWatch,  \* IWatchRequest[]; id is the identity of the object
    recHandles,               \* the disposables returned by watchRecursive
    recursiveWatcher,         \* the WatcherService, or exists = FALSE for undefined
    recLogListener,           \* state of the log-level listener of the recursive watcher
    delayerScheduled,         \* recursiveWatchRequestDelayer has a timeout pending
    nonRecWatchers,           \* the watchers made by watchNonRecursive
    logLevel,                 \* ILogService.getLevel()
    isDisposed,               \* the provider (a Disposable) is disposed
    turn,                     \* "idle": between turns of the event loop; "caller": inside one
    turnMutated,              \* the current turn has mutated the registry
    mutationTurns,            \* number of turns with at least one registry mutation
    reconcileRuns,            \* number of runs of doRefreshRecursiveWatchers
    watcherCreations,         \* number of calls of createRecursiveWatcher
    watcherDisposals,         \* number of disposals of a recursive watcher
    registryAtLastRefresh,    \* the registry when doRefreshRecursiveWatchers last ran
    watcherMessages,          \* the log messages the watchers have reported, in order
    logSink,                  \* the calls made on logService: method and message
    errorsFired,              \* the values _onDidErrorOccur.fire was called with
    \* --- IPCFileSystemProvider.readFileStream
    calls,                    \* per readFileStream call: listener, stream, token, remote
    \* --- IPCFileSystemProvider.read
    rd,                       \* one read() call: arguments, buffer, remote call, result
    \* --- IPCFileSystemProvider.watch
    sessionId,                \* the session id, a uuid
    uuidsGenerated,           \* number of uuids generateUuid() has returned
    channelCalls,             \* the channel.call()s of the watch protocol, in order
    ipcHandles,               \* the disposables returned by watch()
    \* --- IPCFileSystemProvider: the channel and the public events
    channelListens,           \* the channel.listen()s made, in order
    callOutcomes,             \* how the remote settled each call of channelCalls
    unhandledRejections,      \* the rejected calls whose promise nothing listens to
    fileChangePayloads,       \* the payloads received on the 'filechange' stream
    emissions,                \* the fire()s of _onDidChange and _onDidErrorOccur
    liveAtReceipt,            \* per payload received: the handles not disposed then
    ipcDisposed,              \* the IPC provider (a Disposable) is disposed
    \* --- IPCFileSystemProvider: stat, readdir, writeFile, open, close, write,
    \*     mkdir, delete, rename, copy
    opsStarted,               \* the operations called: name and arguments
    opCalls,                  \* the channel.call()s the operations made, in order
    op,                       \* the operation called last, the remote outcome, its result
    \* --- IPCFileSystemProvider: capabilities
    capabilities,             \* _capabilities: the set of the flags that are set
    caseSensitiveCalls,       \* the arguments of the setCaseSensitive calls, in order
    capabilityNotifications   \* number of fire()s of _onDidChangeCapabilities

diskVars == <<recursiveFoldersToWatch, recHandles, recursiveWatcher, recLogListener,
              delayerScheduled, nonRecWatchers, logLevel, isDisposed, turn, turnMutated,
              mutationTurns, reconcileRuns, watcherCreations, watcherDisposals,
              registryAtLastRefresh>>

\* the log messages of the watchers of the disk provider
msgVars == <<watcherMessages, logSink, errorsFired>>

streamVars == <<calls>>

readVars == <<rd>>

watchVars == <<sessionId, uuidsGenerated, channelCalls, ipcHandles>>

listenVars == <<channelListens>>

opsVars == <<opsStarted, opCalls, op>>

capsVars == <<capabilities, caseSensitiveCalls, capabilityNotifications>>

sessionVars == <<callOutcomes, unhandledRejections, fileChangePayloads, emissions,
                 liveAtReceipt, ipcDisposed>>

\* what the steps of the disk provider leave alone
nonDiskVars == <<msgVars, streamVars, readVars, watchVars, listenVars, sessionVars, opsVars, capsVars>>

\* what a log message of a watcher leaves alone
nonMsgVars == <<diskVars, streamVars, readVars, watchVars, listenVars, sessionVars, opsVars, capsVars>>

\* what the steps of readFileStream leave alone
nonStreamVars == <<diskVars, msgVars, readVars, watchVars, listenVars, sessionVars, opsVars, capsVars>>

\* what the steps of read leave alone
nonReadVars == <<diskVars, msgVars, streamVars, watchVars, listenVars, sessionVars, opsVars, capsVars>>

\* what the steps of the watch protocol leave alone
nonWatchVars == <<diskVars, msgVars, streamVars, readVars, listenVars, sessionVars, opsVars, capsVars>>

\* what a step of the session leaves alone
nonSessionVars == <<diskVars, msgVars, streamVars, readVars, watchVars, listenVars, opsVars, capsVars>>

\* what a file operation leaves alone
nonOpsVars == <<diskVars, msgVars, streamVars, readVars, watchVars, listenVars, sessionVars,
               capsVars>>

\* what setCaseSensitive leaves alone
nonCapsVars == <<diskVars, msgVars, streamVars, readVars, watchVars, listenVars, sessionVars,
                opsVars>>

vars == <<diskVars, msgVars, streamVars, readVars, watchVars, listenVars, sessionVars,
          opsVars, capsVars>>

\* ------------------------------------------------------------ sequences
RECURSIVE SeqRemoveAt(_, _)
SeqRemoveAt(s, i) ==
    IF i = 1 THEN Tail(s) ELSE <<Head(s)>> \o SeqRemoveAt(Tail(s), i - 1)

\* Array.prototype.indexOf on object identity, 1-based, 0 for "not found"
IndexOfId(array, id) ==
    IF \E i \in 1..Len(array) : array[i].id = id
    THEN CHOOSE i \in 1..Len(array) :
            /\ array[i].id = id
            /\ \A j \in 1..(i - 1) : array[j].id # id
    ELSE 0

\* ------------------------------------------------ vs/base/common/arrays
\* insert(array, element): push the element; the returned function removes it
insert(array, element) == Append(array, element)

\* the function insert() returns: remove(array, element), by identity
remove(array, id) ==
    IF IndexOfId(array, id) > 0 THEN SeqRemoveAt(array, IndexOfId(array, id)) ELSE array

\* ============================================================ disk provider

\* verboseAtConstruction is the verboseLogging argument of the factory
NoWatcher == [exists |-> FALSE, folders |-> <<>>, verboseLogging |-> FALSE,
              verboseAtConstruction |-> FALSE, disposed |-> FALSE]

IsVerbose(level) == level = "Trace"

IWatchRequest(id, path, excludes) == [id |-> id, path |-> path, excludes |-> excludes]

SameRequest(r1, r2) == r1.path = r2.path /\ r1.excludes = r2.excludes

UnusedHandle == [state |-> "unused", path |-> "a", excludes |-> <<>>]

InitDisk ==
    /\ recursiveFoldersToWatch = <<>>
    /\ recHandles = [i \in RecIds |-> UnusedHandle]
    /\ recursiveWatcher = NoWatcher
    /\ recLogListener = "none"
    /\ delayerScheduled = FALSE
    /\ nonRecWatchers = [i \in NonRecIds |->
                            [state |-> "unused", path |-> "a", verboseLogging |-> FALSE,
                             verboseAtConstruction |-> FALSE, listening |-> FALSE,
                             watching |-> FALSE, setAfterDispose |-> FALSE,
                             registered |-> FALSE]]
    /\ logLevel = "Info"
    /\ isDisposed = FALSE
    /\ turn = "idle"
    /\ turnMutated = FALSE
    /\ mutationTurns = 0
    /\ reconcileRuns = 0
    /\ watcherCreations = 0
    /\ watcherDisposals = 0
    /\ registryAtLastRefresh = <<>>


\* a mutation of the registry is counted once per turn
NoteMutation ==
    /\ turnMutated' = TRUE
    /\ mutationTurns' = IF turnMutated THEN mutationTurns ELSE mutationTurns + 1

\* a variant that gives the folders to a new watcher only, never to the existing one
doRefreshWithoutUpdate ==
    /\ reconcileRuns' = reconcileRuns + 1
    /\ registryAtLastRefresh' = recursiveFoldersToWatch'
    /\ IF ~recursiveWatcher.exists /\ Len(recursiveFoldersToWatch') > 0
       THEN /\ recursiveWatcher' =
                   [exists |-> TRUE, folders |-> recursiveFoldersToWatch',
                    verboseLogging |-> IsVerbose(logLevel),
                    verboseAtConstruction |-> IsVerbose(logLevel), disposed |-> FALSE]
            /\ watcherCreations' = watcherCreations + 1
            /\ recLogListener' = "listening"
       ELSE UNCHANGED <<recursiveWatcher, recLogListener, watcherCreations>>

\* a variant that tears the watcher down when the registry is empty
doRefreshTeardownOnEmpty ==
    /\ reconcileRuns' = reconcileRuns + 1
    /\ registryAtLastRefresh' = recursiveFoldersToWatch'
    /\ IF recursiveWatcher.exists /\ Len(recursiveFoldersToWatch') = 0
       THEN /\ recursiveWatcher' = NoWatcher
            /\ recLogListener' = "disposed"
            /\ UNCHANGED watcherCreations
       ELSE IF recursiveWatcher.exists
       THEN /\ recursiveWatcher' =
                   [recursiveWatcher EXCEPT !.folders = recursiveFoldersToWatch']
            /\ UNCHANGED <<recLogListener, watcherCreations>>
       ELSE IF Len(recursiveFoldersToWatch') > 0
       THEN /\ recursiveWatcher' =
                   [exists |-> TRUE, folders |-> recursiveFoldersToWatch',
                    verboseLogging |-> IsVerbose(logLevel),
                    verboseAtConstruction |-> IsVerbose(logLevel), disposed |-> FALSE]
            /\ watcherCreations' = watcherCreations + 1
            /\ recLogListener' = "listening"
       ELSE UNCHANGED <<recursiveWatcher, recLogListener, watcherCreations>>

\* a variant that makes a new watcher on every run with a non-empty registry
doRefreshAlwaysCreates ==
    /\ reconcileRuns' = reconcileRuns + 1
    /\ registryAtLastRefresh' = recursiveFoldersToWatch'
    /\ IF Len(recursiveFoldersToWatch') > 0
       THEN /\ recursiveWatcher' =
                   [exists |-> TRUE, folders |-> recursiveFoldersToWatch',
                    verboseLogging |-> IsVerbose(logLevel),
                    verboseAtConstruction |-> IsVerbose(logLevel), disposed |-> FALSE]
            /\ watcherCreations' = watcherCreations + 1
            /\ recLogListener' = "listening"
       ELSE UNCHANGED <<recursiveWatcher, recLogListener, watcherCreations>>

\* a variant that makes the watcher also for an empty registry
doRefreshCreatesOnEmpty ==
    /\ reconcileRuns' = reconcileRuns + 1
    /\ registryAtLastRefresh' = recursiveFoldersToWatch'
    /\ IF recursiveWatcher.exists
       THEN /\ recursiveWatcher' =
                   [recursiveWatcher EXCEPT !.folders = recursiveFoldersToWatch']
            /\ UNCHANGED <<recLogListener, watcherCreations>>
       ELSE /\ recursiveWatcher' =
                   [exists |-> TRUE, folders |-> recursiveFoldersToWatch',
                    verboseLogging |-> IsVerbose(logLevel),
                    verboseAtConstruction |-> IsVerbose(logLevel), disposed |-> FALSE]
            /\ watcherCreations' = watcherCreations + 1
            /\ recLogListener' = "listening"

\* doRefreshRecursiveWatchers, run on the registry as it is when it runs
doRefreshRecursiveWatchers ==
    /\ reconcileRuns' = reconcileRuns + 1
    /\ registryAtLastRefresh' = recursiveFoldersToWatch'
    /\ IF recursiveWatcher.exists
       THEN \* reuse existing: recursiveWatcher.watch(recursiveFoldersToWatch)
            /\ recursiveWatcher' =
                   [recursiveWatcher EXCEPT !.folders = recursiveFoldersToWatch']
            /\ UNCHANGED <<recLogListener, watcherCreations>>
       ELSE IF Len(recursiveFoldersToWatch') > 0
       THEN \* createRecursiveWatcher(folders, onChange, onLogMessage, verbose)
            /\ recursiveWatcher' =
                   [exists |-> TRUE, folders |-> recursiveFoldersToWatch',
                    verboseLogging |-> IsVerbose(logLevel),
                    verboseAtConstruction |-> IsVerbose(logLevel), disposed |-> FALSE]
            /\ watcherCreations' = watcherCreations + 1
            /\ recLogListener' = "listening"
       ELSE UNCHANGED <<recursiveWatcher, recLogListener, watcherCreations>>

\* ThrottledDelayer.trigger with delay 0: (re)arm the timeout; the task runs
\* in a later turn, once per armed timeout
DelayerTrigger ==
    /\ delayerScheduled' = TRUE
    /\ UNCHANGED <<recursiveWatcher, recLogListener, watcherCreations, reconcileRuns,
                   registryAtLastRefresh>>

\* a variant that reconciles synchronously, inside the mutating call
RefreshSynchronously ==
    /\ doRefreshRecursiveWatchers
    /\ UNCHANGED delayerScheduled

\* a variant that asks for no reconciliation when the registry is empty
RefreshSkipsEmptyRegistry ==
    IF Len(recursiveFoldersToWatch') > 0
    THEN DelayerTrigger
    ELSE UNCHANGED <<delayerScheduled, recursiveWatcher, recLogListener, watcherCreations,
                     reconcileRuns, registryAtLastRefresh>>

\* refreshRecursiveWatchers: hand doRefreshRecursiveWatchers to the delayer
refreshRecursiveWatchers == DelayerTrigger

\* a variant that removes the first entry with the same path and excludes
RetractStructural(folders, id) ==
    LET h == recHandles[id]
    IN  IF \E i \in 1..Len(folders) : SameRequest(folders[i], h)
        THEN SeqRemoveAt(folders, CHOOSE i \in 1..Len(folders) :
                /\ SameRequest(folders[i], h)
                /\ \A j \in 1..(i - 1) : ~SameRequest(folders[j], h))
        ELSE folders

\* the registry after the function of the disposable of request id has run:
\* remove(), which insert() returned for that request object
Retract(folders, id) == remove(folders, id)

\* a variant of watchRecursive that adds no entry for a request equal to one
\* the registry holds
WatchRecursiveDeduplicating(id, path, excludes) ==
    /\ turn = "caller"
    /\ recHandles[id].state = "unused"
    /\ \A j \in RecIds : j < id => recHandles[j].state # "unused"
    /\ recursiveFoldersToWatch' =
           IF \E i \in 1..Len(recursiveFoldersToWatch) :
                  SameRequest(recursiveFoldersToWatch[i], IWatchRequest(id, path, excludes))
           THEN recursiveFoldersToWatch
           ELSE insert(recursiveFoldersToWatch, IWatchRequest(id, path, excludes))
    /\ recHandles' = [recHandles EXCEPT ![id] =
                         [state |-> "live", path |-> path, excludes |-> excludes]]
    /\ NoteMutation
    /\ refreshRecursiveWatchers
    /\ UNCHANGED <<nonRecWatchers, logLevel, isDisposed, turn, watcherDisposals>>
    /\ UNCHANGED nonDiskVars

\* watchRecursive(resource, opts): the next request object gets the next identity
WatchRecursive(id, path, excludes) ==
    /\ turn = "caller"
    /\ recHandles[id].state = "unused"
    /\ \A j \in RecIds : j < id => recHandles[j].state # "unused"
    /\ recursiveFoldersToWatch' =
           insert(recursiveFoldersToWatch, IWatchRequest(id, path, excludes))
    /\ recHandles' = [recHandles EXCEPT ![id] =
                         [state |-> "live", path |-> path, excludes |-> excludes]]
    /\ NoteMutation
    /\ refreshRecursiveWatchers
    /\ UNCHANGED <<nonRecWatchers, logLevel, isDisposed, turn, watcherDisposals>>
    /\ UNCHANGED nonDiskVars

\* dispose() of the disposable watchRecursive returned (toDisposable runs its
\* function once)
DisposeRecursiveHandle(id) ==
    /\ turn = "caller"
    /\ recHandles[id].state = "live"
    /\ recursiveFoldersToWatch' = Retract(recursiveFoldersToWatch, id)
    /\ recHandles' = [recHandles EXCEPT ![id].state = "disposed"]
    /\ NoteMutation
    /\ refreshRecursiveWatchers
    /\ UNCHANGED <<nonRecWatchers, logLevel, isDisposed, turn, watcherDisposals>>
    /\ UNCHANGED nonDiskVars

\* a second dispose() of the same disposable: nothing runs
DisposeRecursiveHandleAgain(id) ==
    /\ turn = "caller"
    /\ recHandles[id].state = "disposed"
    /\ UNCHANGED vars

\* a variant of the second dispose() in which the function runs again
DisposeRecursiveHandleRunsAgain(id) ==
    /\ turn = "caller"
    /\ recHandles[id].state = "disposed"
    /\ recursiveFoldersToWatch' = Retract(recursiveFoldersToWatch, id)
    /\ recHandles' = [recHandles EXCEPT ![id].state = "disposedTwice"]
    /\ refreshRecursiveWatchers
    /\ UNCHANGED <<nonRecWatchers, logLevel, isDisposed, turn, turnMutated, mutationTurns,
                   watcherDisposals>>
    /\ UNCHANGED nonDiskVars

\* the second dispose() of the disposable watchRecursive returned, recorded in
\* the state of the handle: toDisposable does not run the function again
DisposeRecursiveHandleSecondTime(id) ==
    /\ turn = "caller"
    /\ recHandles[id].state = "disposed"
    /\ recHandles' = [recHandles EXCEPT ![id].state = "disposedTwice"]
    /\ UNCHANGED <<recursiveFoldersToWatch, recursiveWatcher, recLogListener,
                   delayerScheduled, nonRecWatchers, logLevel, isDisposed, turn, turnMutated,
                   mutationTurns, reconcileRuns, watcherCreations, watcherDisposals,
                   registryAtLastRefresh>>
    /\ UNCHANGED nonDiskVars

\* the timeout of the delayer fires in a turn of its own and runs the task
DelayerFire ==
    /\ turn = "idle"
    /\ delayerScheduled
    /\ delayerScheduled' = FALSE
    /\ UNCHANGED recursiveFoldersToWatch
    /\ doRefreshRecursiveWatchers
    /\ UNCHANGED <<recHandles, nonRecWatchers, logLevel, isDisposed, turn, turnMutated,
                   mutationTurns, watcherDisposals>>
    /\ UNCHANGED nonDiskVars

\* a variant that uses the level the listener saw before the change
ListenerVerbosityStale(level) == IsVerbose(logLevel)

\* the verbosity a log-level listener sets: getLevel() === LogLevel.Trace, read
\* when the listener runs
ListenerVerbosity(level) == IsVerbose(level)

\* a variant of watchNonRecursive that passes the watcher and the listener to
\* _register
WatchNonRecursiveRegistered(id, path) ==
    /\ turn = "caller"
    /\ nonRecWatchers[id].state = "unused"
    /\ \A j \in NonRecIds : j < id => nonRecWatchers[j].state # "unused"
    /\ nonRecWatchers' = [nonRecWatchers EXCEPT ![id] =
                             [state |-> "live", path |-> path,
                              verboseLogging |-> IsVerbose(logLevel),
                              verboseAtConstruction |-> IsVerbose(logLevel),
                              listening |-> TRUE, watching |-> TRUE,
                              setAfterDispose |-> FALSE, registered |-> TRUE]]
    /\ UNCHANGED <<recursiveFoldersToWatch, recHandles, recursiveWatcher, recLogListener,
                   delayerScheduled, logLevel, isDisposed, turn, turnMutated,
                   mutationTurns, reconcileRuns, watcherCreations, watcherDisposals,
                   registryAtLastRefresh>>
    /\ UNCHANGED nonDiskVars

\* createNonRecursiveWatcher plus the log-level listener of watchNonRecursive;
\* state is the state of the disposable returned, watching that of the watcher,
\* listening that of the log-level listener; setAfterDispose records a call of
\* setVerboseLogging on the disposed watcher; registered says whether they
\* were passed to _register, which watchNonRecursive does not do
WatchNonRecursive(id, path) ==
    /\ turn = "caller"
    /\ nonRecWatchers[id].state = "unused"
    /\ \A j \in NonRecIds : j < id => nonRecWatchers[j].state # "unused"
    /\ nonRecWatchers' = [nonRecWatchers EXCEPT ![id] =
                             [state |-> "live", path |-> path,
                              verboseLogging |-> IsVerbose(logLevel),
                              verboseAtConstruction |-> IsVerbose(logLevel),
                              listening |-> TRUE, watching |-> TRUE,
                              setAfterDispose |-> FALSE, registered |-> FALSE]]
    /\ UNCHANGED <<recursiveFoldersToWatch, recHandles, recursiveWatcher, recLogListener,
                   delayerScheduled, logLevel, isDisposed, turn, turnMutated,
                   mutationTurns, reconcileRuns, watcherCreations, watcherDisposals,
                   registryAtLastRefresh>>
    /\ UNCHANGED nonDiskVars

\* a variant of the disposable that disposes the watcher only
DisposeNonRecursiveWatcherOnly(id) ==
    /\ turn = "caller"
    /\ nonRecWatchers[id].state = "live"
    /\ nonRecWatchers' = [nonRecWatchers EXCEPT ![id].state = "disposed",
                                                ![id].watching = FALSE]
    /\ UNCHANGED <<recursiveFoldersToWatch, recHandles, recursiveWatcher, recLogListener,
                   delayerScheduled, logLevel, isDisposed, turn, turnMutated,
                   mutationTurns, reconcileRuns, watcherCreations, watcherDisposals,
                   registryAtLastRefresh>>
    /\ UNCHANGED nonDiskVars

\* combinedDisposable(watcherService, logLevelListener).dispose()
DisposeNonRecursiveHandle(id) ==
    /\ turn = "caller"
    /\ nonRecWatchers[id].state = "live"
    /\ nonRecWatchers' = [nonRecWatchers EXCEPT ![id].state = "disposed",
                                                ![id].watching = FALSE,
                                                ![id].listening = FALSE]
    /\ UNCHANGED <<recursiveFoldersToWatch, recHandles, recursiveWatcher, recLogListener,
                   delayerScheduled, logLevel, isDisposed, turn, turnMutated,
                   mutationTurns, reconcileRuns, watcherCreations, watcherDisposals,
                   registryAtLastRefresh>>
    /\ UNCHANGED nonDiskVars

InitMsg ==
    /\ watcherMessages = <<>>
    /\ logSink = <<>>
    /\ errorsFired = <<>>

\* a variant of onWatcherLogMessage that returns after firing the error event
onWatcherLogMessageErrorNotLogged(fired, sink, msg) ==
    IF msg.type = "error"
    THEN [fired |-> Append(fired, msg.message), sink |-> sink]
    ELSE [fired |-> fired, sink |-> Append(sink, [method |-> msg.type, message |-> msg.message])]

\* onWatcherLogMessage(msg): what it makes of the fire() calls and the
\* logService calls made so far
onWatcherLogMessage(fired, sink, msg) ==
    [fired |-> IF msg.type = "error" THEN Append(fired, msg.message) ELSE fired,
     sink |-> Append(sink, [method |-> msg.type, message |-> msg.message])]

\* the watchers that can report: the recursive watcher (0) and the
\* non-recursive ones, until they are disposed
ReportingWatchers ==
    {i \in NonRecIds : nonRecWatchers[i].watching}
        \cup (IF recursiveWatcher.exists /\ ~recursiveWatcher.disposed THEN {0} ELSE {})

\* a variant in which an error message of the recursive watcher disposes it
WatcherLogMessageDisposesOnError(watcher, msg) ==
    /\ watcher \in ReportingWatchers
    /\ Len(watcherMessages) < MaxMessages
    /\ watcherMessages' = Append(watcherMessages, msg)
    /\ LET after == onWatcherLogMessage(errorsFired, logSink, msg)
       IN  /\ errorsFired' = after.fired
           /\ logSink' = after.sink
    /\ recursiveWatcher' =
           IF msg.type = "error" /\ watcher = 0
           THEN [recursiveWatcher EXCEPT !.disposed = TRUE]
           ELSE recursiveWatcher
    /\ UNCHANGED <<recursiveFoldersToWatch, recHandles, recLogListener, delayerScheduled,
                   nonRecWatchers, logLevel, isDisposed, turn, turnMutated, mutationTurns,
                   reconcileRuns, watcherCreations, watcherDisposals, registryAtLastRefresh>>
    /\ UNCHANGED <<streamVars, readVars, watchVars, listenVars, sessionVars, opsVars,
                   capsVars>>

\* a watcher calls the onLogMessage callback it was constructed with
WatcherLogMessage(watcher, msg) ==
    /\ watcher \in ReportingWatchers
    /\ Len(watcherMessages) < MaxMessages
    /\ watcherMessages' = Append(watcherMessages, msg)
    /\ LET after == onWatcherLogMessage(errorsFired, logSink, msg)
       IN  /\ errorsFired' = after.fired
           /\ logSink' = after.sink
    /\ UNCHANGED nonMsgVars

\* logService.onDidChangeLogLevel fires: every live listener sets the verbosity
\* of its watcher
LogLevelChange(level) ==
    /\ level # logLevel
    /\ logLevel' = level
    /\ recursiveWatcher' =
           IF recLogListener = "listening" /\ recursiveWatcher.exists
           THEN [recursiveWatcher EXCEPT !.verboseLogging = ListenerVerbosity(level)]
           ELSE recursiveWatcher
    /\ nonRecWatchers' =
           [i \in NonRecIds |->
               IF nonRecWatchers[i].listening
               THEN [nonRecWatchers[i] EXCEPT
                        !.verboseLogging = ListenerVerbosity(level),
                        !.setAfterDispose = @ \/ ~nonRecWatchers[i].watching]
               ELSE nonRecWatchers[i]]
    /\ UNCHANGED <<recursiveFoldersToWatch, recHandles, recLogListener, delayerScheduled,
                   isDisposed, turn, turnMutated, mutationTurns, reconcileRuns,
                   watcherCreations, watcherDisposals, registryAtLastRefresh>>
    /\ UNCHANGED nonDiskVars

\* the non-recursive watchers after the disposal of what was passed to
\* _register
DisposeRegistered(watchers) ==
    [i \in NonRecIds |->
        IF watchers[i].registered
        THEN [watchers[i] EXCEPT !.watching = FALSE, !.listening = FALSE]
        ELSE watchers[i]]

\* a variant of dispose() that leaves the timeout of the delayer armed
DisposeProviderKeepsTimeout ==
    /\ turn = "caller"
    /\ ~isDisposed
    /\ isDisposed' = TRUE
    /\ recursiveWatcher' = IF recursiveWatcher.exists
                           THEN [recursiveWatcher EXCEPT !.disposed = TRUE]
                           ELSE recursiveWatcher
    /\ watcherDisposals' = IF recursiveWatcher.exists /\ ~recursiveWatcher.disposed
                           THEN watcherDisposals + 1 ELSE watcherDisposals
    /\ recLogListener' = IF recLogListener = "listening" THEN "disposed" ELSE recLogListener
    /\ nonRecWatchers' = DisposeRegistered(nonRecWatchers)
    /\ UNCHANGED <<recursiveFoldersToWatch, recHandles, logLevel, turn,
                   turnMutated, mutationTurns, reconcileRuns, watcherCreations,
                   registryAtLastRefresh, delayerScheduled>>
    /\ UNCHANGED nonDiskVars

\* Disposable.dispose() of the provider: everything passed to _register is
\* disposed: the delayer (its timeout is cancelled), the recursive watcher and
\* its log-level listener. The field recursiveWatcher keeps its value. The
\* non-recursive watchers were not passed to _register.
DisposeProvider ==
    /\ turn = "caller"
    /\ ~isDisposed
    /\ isDisposed' = TRUE
    /\ delayerScheduled' = FALSE
    /\ recursiveWatcher' = IF recursiveWatcher.exists
                           THEN [recursiveWatcher EXCEPT !.disposed = TRUE]
                           ELSE recursiveWatcher
    /\ watcherDisposals' = IF recursiveWatcher.exists /\ ~recursiveWatcher.disposed
                           THEN watcherDisposals + 1 ELSE watcherDisposals
    /\ recLogListener' = IF recLogListener = "listening" THEN "disposed" ELSE recLogListener
    /\ nonRecWatchers' = DisposeRegistered(nonRecWatchers)
    /\ UNCHANGED <<recursiveFoldersToWatch, recHandles, logLevel, turn,
                   turnMutated, mutationTurns, reconcileRuns, watcherCreations,
                   registryAtLastRefresh>>
    /\ UNCHANGED nonDiskVars

\* the event loop starts a turn that runs code of a caller of the provider
BeginTurn ==
    /\ turn = "idle"
    /\ turn' = "caller"
    /\ turnMutated' = FALSE
    /\ UNCHANGED <<recursiveFoldersToWatch, recHandles, recursiveWatcher, recLogListener,
                   delayerScheduled, nonRecWatchers, logLevel, isDisposed, mutationTurns,
                   reconcileRuns, watcherCreations, watcherDisposals,
                   registryAtLastRefresh>>
    /\ UNCHANGED nonDiskVars

EndTurn ==
    /\ turn = "caller"
    /\ turn' = "idle"
    /\ turnMutated' = FALSE
    /\ UNCHANGED <<recursiveFoldersToWatch, recHandles, recursiveWatcher, recLogListener,
                   delayerScheduled, nonRecWatchers, logLevel, isDisposed, mutationTurns,
                   reconcileRuns, watcherCreations, watcherDisposals,
                   registryAtLastRefresh>>
    /\ UNCHANGED nonDiskVars

\* ============================================================ readFileStream

\* ----------------------------------- vs/base/common/stream: WriteableStream
\* The events the consumer of the stream is given, in order; once the stream
\* is closed, write(), error() and end() do nothing.
NewWriteableStream == [events |-> <<>>, closed |-> FALSE]

DataEvent(chunk) == [type |-> "data", val |-> chunk, code |-> ""]
ErrorEvent(message, code) == [type |-> "error", val |-> message, code |-> code]
EndEvent == [type |-> "end", val |-> "", code |-> ""]

StreamWrite(stream, chunk) ==
    IF stream.closed THEN stream
    ELSE [stream EXCEPT !.events = Append(@, DataEvent(chunk))]

StreamError(stream, err) ==
    IF stream.closed THEN stream
    ELSE [stream EXCEPT !.events = Append(@, err)]

StreamEnd(stream) ==
    IF stream.closed THEN stream
    ELSE [events |-> Append(stream.events, EndEvent), closed |-> TRUE]

\* ------------------------------------------------ payloads of the remote
\* ReadableStreamEventPayload<VSBuffer>: a chunk, 'end', or an error, which is
\* an Error object (isError) or whatever the channel made of one
ChunkPayload(chunk) == [type |-> "data", val |-> chunk, code |-> "", isError |-> FALSE]
EndPayload == [type |-> "end", val |-> "", code |-> "", isError |-> FALSE]
ErrorPayloads ==
    { [type |-> "error", val |-> "not found", code |-> "FileNotFound", isError |-> TRUE],
      [type |-> "error", val |-> "broken", code |-> "", isError |-> FALSE] }
Payloads == {ChunkPayload(c) : c \in Chunks} \cup {EndPayload} \cup ErrorPayloads

\* toErrorMessage(error): the text of the value
toErrorMessage(payload) == payload.val

\* createFileSystemProviderError(message, FileSystemProviderErrorCode.Unknown)
createFileSystemProviderError(message, code) == ErrorEvent(message, code)

\* canceled(): the cancellation error
canceled == ErrorEvent("Canceled", "Canceled")

\* channel.listen(event, [key, ...]): the event and the first argument
Listen(event, key) == [event |-> event, key |-> key]

\* one readFileStream call: the listener on the remote event stream with the
\* number of dispose() calls made on it, the stream returned to the caller,
\* the token, what the remote has emitted so far and how much of it arrived
\* (the channel delivers in order); cancelAt is the number of payloads that
\* had arrived when the token fired
NoCall ==
    [status |-> "unused", listener |-> "none", disposeCalls |-> 0,
     stream |-> NewWriteableStream, token |-> "idle", cancelAt |-> 0,
     sent |-> <<>>, arrived |-> 0, closedAtDispose |-> FALSE]

InitStream == calls = [c \in CallIds |-> NoCall]

\* listener.dispose(); closedAtDispose records whether the stream had ended
\* when dispose() was first called
ListenerDispose(call) ==
    [call EXCEPT !.listener = "disposed", !.disposeCalls = @ + 1,
                 !.closedAtDispose = IF call.disposeCalls = 0 THEN call.stream.closed ELSE @]

\* a variant of the listener that does not stop on 'end' or an error
OnPayloadWithoutTeardown(call, payload) ==
    IF payload.type = "data"
    THEN [call EXCEPT !.stream = StreamWrite(@, payload.val)]
    ELSE call

\* a variant of the listener that does not end the stream on 'end'
OnPayloadWithoutEnd(call, payload) ==
    IF payload.type = "data"
    THEN [call EXCEPT !.stream = StreamWrite(@, payload.val)]
    ELSE IF payload.type = "end"
    THEN ListenerDispose(call)
    ELSE LET error == IF payload.isError
                      THEN ErrorEvent(payload.val, payload.code)
                      ELSE createFileSystemProviderError(toErrorMessage(payload), "Unknown")
         IN  ListenerDispose([call EXCEPT !.stream = StreamEnd(StreamError(@, error))])

\* a variant of the listener that forwards every error payload as it came
OnPayloadUncoerced(call, payload) ==
    IF payload.type = "data"
    THEN [call EXCEPT !.stream = StreamWrite(@, payload.val)]
    ELSE IF payload.type = "end"
    THEN ListenerDispose([call EXCEPT !.stream = StreamEnd(@)])
    ELSE ListenerDispose([call EXCEPT !.stream =
             StreamEnd(StreamError(@, ErrorEvent(payload.val, payload.code)))])

\* the listener of readFileStream on the remote event stream
OnPayload(call, payload) ==
    IF payload.type = "data"
    THEN [call EXCEPT !.stream = StreamWrite(@, payload.val)]
    ELSE IF payload.type = "end"
    THEN ListenerDispose([call EXCEPT !.stream = StreamEnd(@)])
    ELSE LET error == IF payload.isError
                      THEN ErrorEvent(payload.val, payload.code)
                      ELSE createFileSystemProviderError(toErrorMessage(payload), "Unknown")
         IN  ListenerDispose([call EXCEPT !.stream = StreamEnd(StreamError(@, error))])

\* a variant of the cancellation handler that keeps listening
OnCancellationKeepsListening(call) ==
    [call EXCEPT !.stream = StreamError(@, canceled)]

\* token.onCancellationRequested: fail and end the stream, dispose the listener
OnCancellationRequested(call) ==
    ListenerDispose([call EXCEPT !.stream = StreamEnd(StreamError(@, canceled))])

\* readFileStream(resource, opts, token): a new stream, a listener on the
\* remote event stream and a listener on the token
ReadFileStream(c) ==
    /\ calls[c].status = "unused"
    /\ \A d \in CallIds : d < c => calls[d].status # "unused"
    /\ calls' = [calls EXCEPT ![c] =
                    [NoCall EXCEPT !.status = "reading", !.listener = "listening"]]
    /\ channelListens' = Append(channelListens, Listen("readFileStream", "a"))
    /\ UNCHANGED <<diskVars, msgVars, readVars, watchVars, sessionVars, opsVars, capsVars>>

\* the remote side emits a payload on the event stream of call c
RemoteEmit(c, payload) ==
    /\ calls[c].status = "reading"
    /\ Len(calls[c].sent) < MaxEvents
    /\ calls' = [calls EXCEPT ![c].sent = Append(@, payload)]
    /\ UNCHANGED nonStreamVars

\* a variant in which a disposed listener is still called
DeliverToDisposedListener(c) ==
    /\ calls[c].status = "reading"
    /\ calls[c].arrived < Len(calls[c].sent)
    /\ LET call == [calls[c] EXCEPT !.arrived = @ + 1]
           payload == calls[c].sent[calls[c].arrived + 1]
       IN  calls' = [calls EXCEPT ![c] = OnPayload(call, payload)]
    /\ UNCHANGED nonStreamVars

\* the next payload arrives: the listener runs if it is not disposed
Deliver(c) ==
    /\ calls[c].status = "reading"
    /\ calls[c].arrived < Len(calls[c].sent)
    /\ LET call == [calls[c] EXCEPT !.arrived = @ + 1]
           payload == calls[c].sent[calls[c].arrived + 1]
       IN  calls' = [calls EXCEPT ![c] =
                        IF call.listener = "listening"
                        THEN OnPayload(call, payload)
                        ELSE call]
    /\ UNCHANGED nonStreamVars

\* a variant in which the token of one call cancels every call in flight
CancelEveryCall(c) ==
    /\ calls[c].status = "reading"
    /\ calls[c].token = "idle"
    /\ calls' = [d \in CallIds |->
                    IF d = c
                    THEN OnCancellationRequested(
                             [calls[c] EXCEPT !.token = "cancelled",
                                              !.cancelAt = calls[c].arrived])
                    ELSE IF calls[d].status = "reading"
                    THEN OnCancellationRequested(calls[d])
                    ELSE calls[d]]
    /\ UNCHANGED nonStreamVars

\* the token of call c fires (once)
Cancel(c) ==
    /\ calls[c].status = "reading"
    /\ calls[c].token = "idle"
    /\ calls' = [calls EXCEPT ![c] =
                    OnCancellationRequested(
                        [calls[c] EXCEPT !.token = "cancelled",
                                         !.cancelAt = calls[c].arrived])]
    /\ UNCHANGED nonStreamVars

\* one readFileStream call
NextStream ==
    \/ ReadFileStream(1)
    \/ \E payload \in Payloads : RemoteEmit(1, payload)
    \/ Deliver(1)
    \/ Cancel(1)

\* what the remote emits for each of two calls in flight together: the files
\* have different chunks; the first ends, the second fails
PayloadsOf(c) ==
    IF c = 1 THEN {ChunkPayload("A"), EndPayload}
    ELSE {ChunkPayload("B")} \cup {e \in ErrorPayloads : ~e.isError}

\* two readFileStream calls in flight together
NextTwoStreams ==
    \/ \E c \in CallIds : ReadFileStream(c)
    \/ \E c \in CallIds : \E payload \in PayloadsOf(c) : RemoteEmit(c, payload)
    \/ \E c \in CallIds : Deliver(c)
    \/ \E c \in CallIds : Cancel(c)

\* ====================================================================== read

Min(a, b) == IF a < b THEN a ELSE b

\* all sequences over S of length n, and of length up to n
RECURSIVE SeqsOfLen(_, _)
SeqsOfLen(S, n) ==
    IF n = 0 THEN {<<>>}
    ELSE {Append(q, x) : q \in SeqsOfLen(S, n - 1), x \in S}

SeqsUpTo(S, n) == UNION {SeqsOfLen(S, k) : k \in 0..n}

\* Uint8Array.prototype.slice(0, end), end >= 0: end is clamped to the length
SliceFromStart(bytes, end) == SubSeq(bytes, 1, Min(end, Len(bytes)))

\* Uint8Array.prototype.set(source, offset) fits: otherwise a RangeError is
\* thrown and nothing is copied
SetFits(target, source, offset) == offset + Len(source) <= Len(target)

\* target after Uint8Array.prototype.set(source, offset); index i of the
\* sequence is index i - 1 of the array
SetAt(target, source, offset) ==
    [i \in 1..Len(target) |->
        IF offset < i /\ i <= offset + Len(source) THEN source[i - offset] ELSE target[i]]

Pending == [kind |-> "pending", value |-> 0]
Resolved(n) == [kind |-> "resolved", value |-> n]
Rejected == [kind |-> "rejected", value |-> 0]

\* data is the buffer of the caller, dataAtCall what it held when read() was
\* called; bytes and bytesRead are the reply
InitRead ==
    rd = [pc |-> "idle", data |-> <<>>, dataAtCall |-> <<>>, offset |-> 0,
          length |-> 0, fd |-> 0, pos |-> 0, remoteCalls |-> <<>>,
          bytes |-> <<>>, bytesRead |-> 0, result |-> Pending]

\* a variant of the code after the await that copies the whole reply buffer
\* and returns the length asked for
AfterReadReplyWholeBuffer(r, bytes, bytesRead) ==
    IF SetFits(r.data, bytes, r.offset)
    THEN [r EXCEPT !.pc = "replied", !.bytes = bytes, !.bytesRead = bytesRead,
                   !.data = SetAt(r.data, bytes, r.offset),
                   !.result = Resolved(r.length)]
    ELSE [r EXCEPT !.pc = "replied", !.bytes = bytes, !.bytesRead = bytesRead,
                   !.result = Rejected]

\* read() after the await, given the reply [bytes, bytesRead]:
\* data.set(bytes.buffer.slice(0, bytesRead), offset); return bytesRead
AfterReadReply(r, bytes, bytesRead) ==
    LET source == SliceFromStart(bytes, bytesRead)
    IN  IF SetFits(r.data, source, r.offset)
        THEN [r EXCEPT !.pc = "replied", !.bytes = bytes, !.bytesRead = bytesRead,
                       !.data = SetAt(r.data, source, r.offset),
                       !.result = Resolved(bytesRead)]
        ELSE [r EXCEPT !.pc = "replied", !.bytes = bytes, !.bytesRead = bytesRead,
                       !.result = Rejected]

\* read(fd, pos, data, offset, length) up to the await: channel.call('read', ...)
Read(fd, pos, data, offset, length) ==
    /\ rd.pc = "idle"
    /\ rd' = [rd EXCEPT !.pc = "awaiting", !.fd = fd, !.pos = pos, !.offset = offset,
                        !.length = length, !.data = data, !.dataAtCall = data,
                        !.remoteCalls = Append(@, [method |-> "read", fd |-> fd,
                                                   pos |-> pos, length |-> length])]
    /\ UNCHANGED nonReadVars

\* the remote side replies [bytes, bytesRead]
ReadReply(bytes, bytesRead) ==
    /\ rd.pc = "awaiting"
    /\ rd' = AfterReadReply(rd, bytes, bytesRead)
    /\ UNCHANGED nonReadVars

\* the remote side rejects the call: read() rejects with the same failure
ReadReject ==
    /\ rd.pc = "awaiting"
    /\ rd' = [rd EXCEPT !.pc = "rejected", !.result = Rejected]
    /\ UNCHANGED nonReadVars

NextRead ==
    \/ \E fd \in Fds, pos \in Positions, data \in SeqsOfLen(ByteValues, MaxBuffer),
          offset \in 0..MaxBuffer, length \in 0..MaxReplyLen :
          Read(fd, pos, data, offset, length)
    \/ \E bytes \in SeqsUpTo(ByteValues, MaxReplyLen), bytesRead \in 0..MaxReplyLen :
          ReadReply(bytes, bytesRead)
    \/ ReadReject

\* ============================================================ watch protocol

Resources == {"a", "b"}

\* generateUuid(): a value no earlier call returned; uuid n is the n-th made.
\* The session id is the first, made when the provider is constructed.
\* registerFileChangeListeners(): the listener on the 'filechange' events of
\* the session
registerFileChangeListeners(listens, session) ==
    Append(listens, Listen("filechange", session))

\* the field initializer of sessionId runs before the body of the constructor,
\* which calls registerFileChangeListeners
InitListen == channelListens = registerFileChangeListeners(<<>>, sessionId)

InitSession ==
    /\ callOutcomes = [k \in 1..(2 * MaxWatch) |-> "pending"]
    /\ unhandledRejections = {}
    /\ fileChangePayloads = <<>>
    /\ emissions = <<>>
    /\ liveAtReceipt = <<>>
    /\ ipcDisposed = FALSE

InitWatch ==
    /\ sessionId = 1
    /\ uuidsGenerated = 1
    /\ channelCalls = <<>>
    /\ ipcHandles = [i \in WatchIds |-> [state |-> "unused", req |-> 0]]

WatchCall(session, req, resource, recursive) ==
    [method |-> "watch", session |-> session, req |-> req, resource |-> resource,
     recursive |-> recursive]

UnwatchCall(session, req) ==
    [method |-> "unwatch", session |-> session, req |-> req, resource |-> "",
     recursive |-> FALSE]

\* a variant of watch() that listens to 'filechange' for each request
IPCWatchOpensStream(id, resource, recursive) ==
    /\ ipcHandles[id].state = "unused"
    /\ \A j \in WatchIds : j < id => ipcHandles[j].state # "unused"
    /\ LET req == uuidsGenerated + 1
       IN  /\ uuidsGenerated' = req
           /\ channelCalls' =
                  Append(channelCalls, WatchCall(sessionId, req, resource, recursive))
           /\ ipcHandles' = [ipcHandles EXCEPT ![id] = [state |-> "live", req |-> req]]
    /\ channelListens' = Append(channelListens, Listen("filechange", uuidsGenerated + 1))
    /\ UNCHANGED <<sessionId, diskVars, msgVars, streamVars, readVars, sessionVars, opsVars, capsVars>>

\* a variant of watch() that returns the handle without having made the call
IPCWatchWithoutCall(id, resource, recursive) ==
    /\ ipcHandles[id].state = "unused"
    /\ \A j \in WatchIds : j < id => ipcHandles[j].state # "unused"
    /\ uuidsGenerated' = uuidsGenerated + 1
    /\ ipcHandles' = [ipcHandles EXCEPT ![id] = [state |-> "live", req |-> uuidsGenerated + 1]]
    /\ UNCHANGED <<sessionId, channelCalls, nonWatchVars>>

\* watch(resource, opts) of the IPC provider
IPCWatch(id, resource, recursive) ==
    /\ ipcHandles[id].state = "unused"
    /\ \A j \in WatchIds : j < id => ipcHandles[j].state # "unused"
    /\ LET req == uuidsGenerated + 1
       IN  /\ uuidsGenerated' = req
           /\ channelCalls' =
                  Append(channelCalls, WatchCall(sessionId, req, resource, recursive))
           /\ ipcHandles' = [ipcHandles EXCEPT ![id] = [state |-> "live", req |-> req]]
    /\ UNCHANGED <<sessionId, nonWatchVars>>

\* a variant whose disposable names the request made last, not its own
UnwatchLatestRequest(id) == UnwatchCall(sessionId, uuidsGenerated)

\* the call the disposable of watch() makes: unwatch with its own request
UnwatchOwnRequest(id) == UnwatchCall(sessionId, ipcHandles[id].req)

\* dispose() of the disposable watch() returned (toDisposable runs its
\* function once)
IPCDisposeHandle(id) ==
    /\ ipcHandles[id].state = "live"
    /\ channelCalls' = Append(channelCalls, UnwatchOwnRequest(id))
    /\ ipcHandles' = [ipcHandles EXCEPT ![id].state = "disposed"]
    /\ UNCHANGED <<sessionId, uuidsGenerated, nonWatchVars>>

\* a second dispose() of the same disposable: nothing runs
IPCDisposeHandleAgain(id) ==
    /\ ipcHandles[id].state = "disposed"
    /\ UNCHANGED vars

\* UriComponents as the channel delivers them, and URI.revive, which makes a
\* URI of them
UriComponents(path) == [scheme |-> "file", path |-> path]

revive(components) == [isUri |-> TRUE, scheme |-> components.scheme, path |-> components.path]

\* the change events of a 'filechange' payload: { resource, type }
RemoteChanges ==
    { [resource |-> UriComponents("a"), type |-> "UPDATED"],
      [resource |-> UriComponents("b"), type |-> "DELETED"] }

ArrayPayload(events) == [isArray |-> TRUE, events |-> events, error |-> ""]
StringPayload(error) == [isArray |-> FALSE, events |-> <<>>, error |-> error]

\* what the remote sends on 'filechange': an array of change events (also an
\* empty one, and the same events in both orders) or an error string
FileChangePayloads ==
    {ArrayPayload(<<>>), StringPayload("watcher failed")}
        \cup {ArrayPayload(<<e>>) : e \in RemoteChanges}
        \cup {ArrayPayload(<<e1, e2>>) : e1, e2 \in RemoteChanges}

ChangeEmission(batch) == [event |-> "onDidChangeFile", batch |-> batch, error |-> ""]
ErrorEmission(error) == [event |-> "onDidErrorOccur", batch |-> <<>>, error |-> error]

\* a variant of the listener that does not fire for an empty array
onFileChangeSkipsEmpty(emitted, eventsOrError) ==
    IF eventsOrError.isArray
    THEN IF eventsOrError.events = <<>> THEN emitted
         ELSE Append(emitted, ChangeEmission(
                  [i \in 1..Len(eventsOrError.events) |->
                      [resource |-> revive(eventsOrError.events[i].resource),
                       type |-> eventsOrError.events[i].type]]))
    ELSE Append(emitted, ErrorEmission(eventsOrError.error))

\* the listener on 'filechange': what it adds to the fire()s made so far
onFileChange(emitted, eventsOrError) ==
    IF eventsOrError.isArray
    THEN Append(emitted, ChangeEmission(
             [i \in 1..Len(eventsOrError.events) |->
                 [resource |-> revive(eventsOrError.events[i].resource),
                  type |-> eventsOrError.events[i].type]]))
    ELSE Append(emitted, ErrorEmission(eventsOrError.error))

LiveIPCHandles == {i \in WatchIds : ipcHandles[i].state = "live"}

\* a variant of the listener that emits only while a handle is not disposed
FileChangeOnlyWhileWatching(payload) ==
    /\ ~ipcDisposed
    /\ Len(fileChangePayloads) < MaxFileChanges
    /\ fileChangePayloads' = Append(fileChangePayloads, payload)
    /\ liveAtReceipt' = Append(liveAtReceipt, LiveIPCHandles)
    /\ emissions' = IF LiveIPCHandles # {} THEN onFileChange(emissions, payload) ELSE emissions
    /\ UNCHANGED <<callOutcomes, unhandledRejections, ipcDisposed>>
    /\ UNCHANGED nonSessionVars

\* a payload arrives on the 'filechange' stream of the session, whose listener
\* is registered until the provider is disposed
FileChange(payload) ==
    /\ ~ipcDisposed
    /\ Len(fileChangePayloads) < MaxFileChanges
    /\ fileChangePayloads' = Append(fileChangePayloads, payload)
    /\ liveAtReceipt' = Append(liveAtReceipt, LiveIPCHandles)
    /\ emissions' = onFileChange(emissions, payload)
    /\ UNCHANGED <<callOutcomes, unhandledRejections, ipcDisposed>>
    /\ UNCHANGED nonSessionVars

\* Disposable.dispose() of the IPC provider: what was passed to _register is
\* disposed, the listener on 'filechange' among it
IPCDisposeProvider ==
    /\ ~ipcDisposed
    /\ ipcDisposed' = TRUE
    /\ UNCHANGED <<callOutcomes, unhandledRejections, fileChangePayloads, emissions,
                   liveAtReceipt>>
    /\ UNCHANGED nonSessionVars

\* the failure the remote rejects a 'watch' or 'unwatch' call with
WatchFailure == "watch refused"

\* the remote settles a call of the watch protocol; watch() and the disposable
\* drop the promise of channel.call, so a rejection has no handler
SettleCall(k, outcome) ==
    /\ k \in 1..Len(channelCalls)
    /\ callOutcomes[k] = "pending"
    /\ callOutcomes' = [callOutcomes EXCEPT ![k] = outcome]
    /\ unhandledRejections' =
           IF outcome = "rejected" THEN unhandledRejections \cup {k} ELSE unhandledRejections
    /\ UNCHANGED <<fileChangePayloads, emissions, liveAtReceipt, ipcDisposed>>
    /\ UNCHANGED nonSessionVars

\* a variant of a later dispose() in which the function runs again
IPCDisposeHandleCallsAgain(id) ==
    /\ ipcHandles[id].state \in {"disposed", "disposedTwice"}
    /\ channelCalls' = Append(channelCalls, UnwatchOwnRequest(id))
    /\ ipcHandles' = [ipcHandles EXCEPT ![id].state = "disposedTwice"]
    /\ UNCHANGED <<sessionId, uuidsGenerated, nonWatchVars>>

\* a later dispose() of the disposable watch() returned, recorded in the state
\* of the handle: toDisposable does not run the function again
IPCDisposeHandleSecondTime(id) ==
    /\ ipcHandles[id].state \in {"disposed", "disposedTwice"}
    /\ ipcHandles' = [ipcHandles EXCEPT ![id].state = "disposedTwice"]
    /\ UNCHANGED <<sessionId, uuidsGenerated, channelCalls, nonWatchVars>>

\* the watch protocol with repeated disposals recorded
NextUnwatch ==
    \/ \E id \in WatchIds, resource \in Resources : IPCWatch(id, resource, TRUE)
    \/ \E id \in WatchIds : IPCDisposeHandle(id)
    \/ \E id \in WatchIds : IPCDisposeHandleSecondTime(id)

NextWatch ==
    \/ \E id \in WatchIds, resource \in Resources, recursive \in BOOLEAN :
          IPCWatch(id, resource, recursive)
    \/ \E id \in WatchIds : IPCDisposeHandle(id)
    \/ \E id \in WatchIds : IPCDisposeHandleAgain(id)

\* ========================================================= file operations

OpNames == {"stat", "readdir", "writeFile", "open", "close", "write", "mkdir", "delete",
            "rename", "copy"}

\* arguments a caller passes: usable ones, and ones the remote side will refuse
\* (no resource, a negative descriptor, position and length)
UsableArgs ==
    [resource |-> "a", target |-> "b", fd |-> 3, pos |-> 0, content |-> <<0, 1>>,
     offset |-> 0, length |-> 2, opts |-> "opts"]
RefusedArgs ==
    [resource |-> "", target |-> "", fd |-> -1, pos |-> -1, content |-> <<>>,
     offset |-> 0, length |-> -1, opts |-> "opts"]
OpArgs == {UsableArgs, RefusedArgs}

\* VSBuffer.wrap(bytes): a VSBuffer over the same bytes
VSBufferWrap(bytes) == [buffer |-> bytes]

\* the channel.call each operation makes
ChannelCallOf(name, a) ==
    CASE name = "stat" -> [method |-> "stat", args |-> [resource |-> a.resource]]
      [] name = "readdir" -> [method |-> "readdir", args |-> [resource |-> a.resource]]
      [] name = "writeFile" ->
             [method |-> "writeFile",
              args |-> [resource |-> a.resource, content |-> VSBufferWrap(a.content),
                        opts |-> a.opts]]
      [] name = "open" ->
             [method |-> "open", args |-> [resource |-> a.resource, opts |-> a.opts]]
      [] name = "close" -> [method |-> "close", args |-> [fd |-> a.fd]]
      [] name = "write" ->
             [method |-> "write",
              args |-> [fd |-> a.fd, pos |-> a.pos, content |-> VSBufferWrap(a.content),
                        offset |-> a.offset, length |-> a.length]]
      [] name = "mkdir" -> [method |-> "mkdir", args |-> [resource |-> a.resource]]
      [] name = "delete" ->
             [method |-> "delete", args |-> [resource |-> a.resource, opts |-> a.opts]]
      [] name = "rename" ->
             [method |-> "rename",
              args |-> [resource |-> a.resource, target |-> a.target, opts |-> a.opts]]
      [] name = "copy" ->
             [method |-> "copy",
              args |-> [resource |-> a.resource, target |-> a.target, opts |-> a.opts]]

PendingOutcome == [kind |-> "pending", value |-> ""]

\* how the remote side settles a call: with a result or with a failure
RemoteOutcomes ==
    { [kind |-> "resolved", value |-> "r1"], [kind |-> "resolved", value |-> "r2"],
      [kind |-> "rejected", value |-> "ENOENT"] }

NoOp == [pc |-> "idle", name |-> "stat", remote |-> PendingOutcome, result |-> PendingOutcome]

InitOps ==
    /\ opsStarted = <<>>
    /\ opCalls = <<>>
    /\ op = NoOp

\* one of the ten operations is called: it returns the promise of channel.call
FileOp(name, a) ==
    /\ op.pc \in {"idle", "settled"}
    /\ Len(opsStarted) < MaxOps
    /\ opsStarted' = Append(opsStarted, [name |-> name, args |-> a])
    /\ opCalls' = Append(opCalls, ChannelCallOf(name, a))
    /\ op' = [pc |-> "awaiting", name |-> name, remote |-> PendingOutcome,
              result |-> PendingOutcome]
    /\ UNCHANGED nonOpsVars

\* a variant in which a rejected call is made once more
OpSettleRetries(outcome) ==
    /\ op.pc = "awaiting"
    /\ IF outcome.kind = "rejected" /\ op.remote = PendingOutcome
       THEN /\ opCalls' = Append(opCalls, opCalls[Len(opCalls)])
            /\ op' = [op EXCEPT !.remote = outcome]
       ELSE /\ opCalls' = opCalls
            /\ op' = [op EXCEPT !.pc = "settled", !.remote = outcome, !.result = outcome]
    /\ UNCHANGED opsStarted
    /\ UNCHANGED nonOpsVars

\* the remote side settles the call: the promise the operation returned is the
\* promise of the call
OpSettle(outcome) ==
    /\ op.pc = "awaiting"
    /\ op' = [op EXCEPT !.pc = "settled", !.remote = outcome, !.result = outcome]
    /\ UNCHANGED <<opsStarted, opCalls>>
    /\ UNCHANGED nonOpsVars

NextOps ==
    \/ \E name \in OpNames, a \in OpArgs : FileOp(name, a)
    \/ \E outcome \in RemoteOutcomes : OpSettle(outcome)

\* ============================================================= capabilities

\* the flags _capabilities is initialised with
InitialCapabilities ==
    {"FileReadWrite", "FileOpenReadWriteClose", "FileReadStream", "FileFolderCopy",
     "FileWriteUnlock"}

InitCaps ==
    /\ capabilities = InitialCapabilities
    /\ caseSensitiveCalls = <<>>
    /\ capabilityNotifications = 0

\* a variant of setCaseSensitive that never clears the flag
setCaseSensitiveNeverClears(caps, isCaseSensitive) ==
    IF isCaseSensitive THEN caps \cup {"PathCaseSensitive"} ELSE caps

\* setCaseSensitive(isCaseSensitive): |= sets the flag, &= ~ clears it
setCaseSensitive(caps, isCaseSensitive) ==
    IF isCaseSensitive
    THEN caps \cup {"PathCaseSensitive"}
    ELSE caps \ {"PathCaseSensitive"}

\* a call of setCaseSensitive, which ends with _onDidChangeCapabilities.fire()
SetCaseSensitive(isCaseSensitive) ==
    /\ Len(caseSensitiveCalls) < MaxCaseCalls
    /\ caseSensitiveCalls' = Append(caseSensitiveCalls, isCaseSensitive)
    /\ capabilities' = setCaseSensitive(capabilities, isCaseSensitive)
    /\ capabilityNotifications' = capabilityNotifications + 1
    /\ UNCHANGED nonCapsVars

\* the capabilities of the IPC provider while it is used
NextCaps ==
    \/ \E b \in BOOLEAN : SetCaseSensitive(b)
    \/ \E resource \in Resources, recursive \in BOOLEAN : IPCWatch(1, resource, recursive)
    \/ IPCDisposeHandle(1)
    \/ \E name \in {"stat", "writeFile"} : FileOp(name, UsableArgs)
    \/ \E outcome \in RemoteOutcomes : OpSettle(outcome)
    \/ ReadFileStream(1)

\* ==================================================================== specs

Init ==
    /\ InitDisk
    /\ InitMsg
    /\ InitStream
    /\ InitRead
    /\ InitWatch
    /\ InitListen
    /\ InitSession
    /\ InitOps
    /\ InitCaps

SpecStream == Init /\ [][NextStream]_vars

SpecRead == Init /\ [][NextRead]_vars

SpecWatch == Init /\ [][NextWatch]_vars

\* the session of the IPC provider: its channel and its public events
NextSession ==
    \/ \E resource \in Resources, recursive \in BOOLEAN : IPCWatch(1, resource, recursive)
    \/ IPCDisposeHandle(1)
    \/ \E k \in 1..(2 * MaxWatch), outcome \in {"resolved", "rejected"} : SettleCall(k, outcome)
    \/ \E c \in CallIds : ReadFileStream(c)
    \/ \E e \in RemoteChanges : FileChange(ArrayPayload(<<e>>))
    \/ FileChange(StringPayload("watcher failed"))
    \/ FileOp("stat", UsableArgs)
    \/ OpSettle(CHOOSE outcome \in RemoteOutcomes : outcome.kind = "rejected")

SpecSession == Init /\ [][NextSession]_vars

\* the 'filechange' stream of the session while requests come and go
NextFileChange ==
    \/ \E p \in FileChangePayloads : FileChange(p)
    \/ \E resource \in Resources, recursive \in BOOLEAN : IPCWatch(1, resource, recursive)
    \/ IPCDisposeHandle(1)

SpecFileChange == Init /\ [][NextFileChange]_vars

SpecOps == Init /\ [][NextOps]_vars

SpecCaps == Init /\ [][NextCaps]_vars

\* both providers while remote calls, streaming reads and watchers fail
NextFailure ==
    \/ FileOp("stat", UsableArgs)
    \/ \E outcome \in RemoteOutcomes : OpSettle(outcome)
    \/ ReadFileStream(1)
    \/ \E p \in {ChunkPayload("A")} \cup {e \in ErrorPayloads : ~e.isError} : RemoteEmit(1, p)
    \/ Deliver(1)
    \/ SetCaseSensitive(TRUE)
    \/ BeginTurn
    \/ EndTurn
    \/ WatchRecursive(1, "a", <<>>)
    \/ DelayerFire
    \/ \E m \in {l \in LogMessages : l.message \in {"e1", "w1"}} : WatcherLogMessage(0, m)

SpecFailure == Init /\ [][NextFailure]_vars

\* the 'filechange' stream of the session from the construction of the
\* provider to its disposal
NextRoute ==
    \/ \E e \in RemoteChanges : FileChange(ArrayPayload(<<e>>))
    \/ FileChange(StringPayload("watcher failed"))
    \/ \E recursive \in BOOLEAN : IPCWatch(1, "a", recursive)
    \/ IPCDisposeHandle(1)
    \/ IPCDisposeProvider

SpecRoute == Init /\ [][NextRoute]_vars

SpecUnwatch == Init /\ [][NextUnwatch]_vars

SpecTwoStreams == Init /\ [][NextTwoStreams]_vars

\* the recursive watching of the disk provider
Next ==
    \/ BeginTurn
    \/ EndTurn
    \/ \E id \in RecIds, r \in Requests : WatchRecursive(id, r[1], r[2])
    \/ \E id \in RecIds : DisposeRecursiveHandle(id)
    \/ \E id \in RecIds : DisposeRecursiveHandleAgain(id)
    \/ DelayerFire
    \/ \E l \in LogLevels : LogLevelChange(l)
    \/ DisposeProvider

Spec == Init /\ [][Next]_vars

\* the recursive watching of the disk provider, with second disposals recorded
NextRetract ==
    \/ BeginTurn
    \/ EndTurn
    \/ \E id \in RecIds, r \in Requests : WatchRecursive(id, r[1], r[2])
    \/ \E id \in RecIds : DisposeRecursiveHandle(id)
    \/ \E id \in RecIds : DisposeRecursiveHandleSecondTime(id)
    \/ DelayerFire
    \/ DisposeProvider

SpecRetract == Init /\ [][NextRetract]_vars

\* the watchers of the disk provider and the log messages they report
NextMsg ==
    \/ BeginTurn
    \/ EndTurn
    \/ WatchRecursive(1, "a", <<>>)
    \/ DelayerFire
    \/ \E id \in NonRecIds, p \in Paths : WatchNonRecursive(id, p)
    \/ \E id \in NonRecIds : DisposeNonRecursiveHandle(id)
    \/ DisposeProvider
    \/ \E w \in {0} \cup NonRecIds, m \in LogMessages : WatcherLogMessage(w, m)

SpecMsg == Init /\ [][NextMsg]_vars

\* the recursive watching of requests for one folder, with the scheduling of
\* the event loop: a turn ends, and a timeout that is due fires at last
NextLive ==
    \/ BeginTurn
    \/ EndTurn
    \/ \E id \in RecIds : WatchRecursive(id, "a", <<>>)
    \/ \E id \in RecIds : DisposeRecursiveHandle(id)
    \/ DelayerFire
    \/ DisposeProvider

SpecLive ==
    /\ Init
    /\ [][NextLive]_vars
    /\ WF_vars(EndTurn)
    /\ SF_vars(DelayerFire)

\* the disk provider with its non-recursive watchers and one recursive request
NextLog ==
    \/ BeginTurn
    \/ EndTurn
    \/ WatchRecursive(1, "a", <<>>)
    \/ DisposeRecursiveHandle(1)
    \/ DelayerFire
    \/ \E id \in NonRecIds, p \in Paths : WatchNonRecursive(id, p)
    \/ \E id \in NonRecIds : DisposeNonRecursiveHandle(id)
    \/ \E l \in LogLevels : LogLevelChange(l)
    \/ DisposeProvider

SpecLog == Init /\ [][NextLog]_vars

\* ================================================================== claims

EntriesOf(folders, id) == Cardinality({i \in 1..Len(folders) : folders[i].id = id})

LiveRecIds == {i \in RecIds : recHandles[i].state = "live"}

\* C1: whenever a reconciliation has run and a recursive watcher exists, the
\* folder list the watcher was last given is the registry as it was when the
\* last reconciliation ran, however many mutations preceded that run; so with
\* no reconciliation pending the watcher has exactly the current registry.
C1_WatcherHasRegistrySnapshot ==
    /\ (reconcileRuns > 0 /\ recursiveWatcher.exists)
           => recursiveWatcher.folders = registryAtLastRefresh
    /\ (recursiveWatcher.exists /\ ~delayerScheduled /\ ~isDisposed)
           => recursiveWatcher.folders = recursiveFoldersToWatch

\* C1 witness: the second reconciliation ran after a turn with two mutations
\* (second request added, first retracted) and gave the watcher the result
C1_Witness ==
    /\ reconcileRuns = 2
    /\ mutationTurns = 2
    /\ recHandles[1].state = "disposed"
    /\ recHandles[2].state = "live"
    /\ recursiveWatcher.exists
    /\ Len(recursiveWatcher.folders) = 1
    /\ recursiveWatcher.folders[1].id = 2

\* C2: when one of two callers with the same path and excludes has disposed its
\* handle, exactly its own entry is gone: the registry holds the other caller's
\* entry once, one entry per live handle, and the snapshot the watcher has once
\* reconciliation ran holds the other caller's entry too.
C2_RetractRemovesOwnEntryOnly ==
    \A i, j \in RecIds :
        ( /\ i # j
          /\ recHandles[i].state = "disposed"
          /\ recHandles[j].state = "live"
          /\ SameRequest(recHandles[i], recHandles[j]) )
        => /\ EntriesOf(recursiveFoldersToWatch, i) = 0
           /\ EntriesOf(recursiveFoldersToWatch, j) = 1
           /\ Len(recursiveFoldersToWatch) = Cardinality(LiveRecIds)
           /\ (recursiveWatcher.exists /\ ~delayerScheduled /\ ~isDisposed)
                  => EntriesOf(recursiveWatcher.folders, j) = 1

\* C2 witness: the first of two equal requests was retracted, reconciliation
\* ran and the watcher has the second one
C2_Witness ==
    /\ recHandles[1].state = "disposed"
    /\ recHandles[2].state = "live"
    /\ SameRequest(recHandles[1], recHandles[2])
    /\ recursiveWatcher.exists
    /\ ~delayerScheduled
    /\ ~isDisposed
    /\ EntriesOf(recursiveWatcher.folders, 2) = 1

\* C3: the number of reconciliation runs never exceeds the number of turns in
\* which the registry was mutated: the mutations of one turn share one run.
C3_RunsAtMostMutationTurns == reconcileRuns <= mutationTurns

\* C3 witness: two requests added in one turn, then one run that saw both
C3_Witness ==
    /\ mutationTurns = 1
    /\ reconcileRuns = 1
    /\ Len(registryAtLastRefresh) = 2
    /\ ~delayerScheduled

\* ---- what a stream must hold, from the payloads alone
IsTerminal(payload) == payload.type # "data"

HasTerminal(payloads) == \E i \in 1..Len(payloads) : IsTerminal(payloads[i])

FirstTerminal(payloads) ==
    CHOOSE i \in 1..Len(payloads) :
        IsTerminal(payloads[i]) /\ \A j \in 1..(i - 1) : ~IsTerminal(payloads[j])

\* the chunks before the first 'end' or error, as data events
ChunksOf(payloads) ==
    LET n == IF HasTerminal(payloads) THEN FirstTerminal(payloads) - 1 ELSE Len(payloads)
    IN  [i \in 1..n |-> DataEvent(payloads[i].val)]

TypeCount(events, type) == Cardinality({i \in 1..Len(events) : events[i].type = type})

\* the payloads that had arrived when the token of the call fired
BeforeCancel(call) == SubSeq(call.sent, 1, call.cancelAt)

Arrived(call) == SubSeq(call.sent, 1, call.arrived)

\* C4: with a token that has not fired, the stream holds exactly the chunks
\* that arrived, in order; once the end marker arrived after chunks c1..cn the
\* stream holds c1..cn and then its end, with no error, and dispose() was
\* called on the remote listener exactly once.
C4_ChunksThenEnd ==
    \A c \in CallIds :
        (calls[c].status = "reading" /\ calls[c].token = "idle") =>
            LET got == Arrived(calls[c])
            IN  /\ ~HasTerminal(got) =>
                      /\ calls[c].stream.events = ChunksOf(got)
                      /\ ~calls[c].stream.closed
                      /\ calls[c].listener = "listening"
                      /\ calls[c].disposeCalls = 0
                /\ (HasTerminal(got) /\ got[FirstTerminal(got)].type = "end") =>
                      /\ calls[c].stream.events = ChunksOf(got) \o <<EndEvent>>
                      /\ calls[c].stream.closed
                      /\ calls[c].listener = "disposed"
                      /\ calls[c].disposeCalls = 1

\* C4 witness: the remote emitted A, B, end; all arrived; the token did not fire
C4_Witness ==
    /\ calls[1].token = "idle"
    /\ calls[1].sent = <<ChunkPayload("A"), ChunkPayload("B"), EndPayload>>
    /\ calls[1].arrived = 3
    /\ calls[1].stream.events = <<DataEvent("A"), DataEvent("B"), EndEvent>>
    /\ calls[1].disposeCalls = 1

\* C5: when the token fired before an end marker or an error arrived, the
\* stream holds the chunks that had arrived by then, the cancellation error
\* and its end, the remote listener is disposed, and nothing the remote sends
\* afterwards is added.
C5_CancelBeforeEnd ==
    \A c \in CallIds :
        (calls[c].token = "cancelled" /\ ~HasTerminal(BeforeCancel(calls[c]))) =>
            /\ calls[c].stream.events =
                   ChunksOf(BeforeCancel(calls[c])) \o <<canceled, EndEvent>>
            /\ calls[c].stream.closed
            /\ calls[c].listener = "disposed"

\* C5 witness: cancelled after chunk A; the remote then sent B and end, which
\* arrived and were not added
C5_Witness ==
    /\ calls[1].token = "cancelled"
    /\ calls[1].cancelAt = 1
    /\ calls[1].sent = <<ChunkPayload("A"), ChunkPayload("B"), EndPayload>>
    /\ calls[1].arrived = 3
    /\ calls[1].stream.events = <<DataEvent("A"), canceled, EndEvent>>

C7_ReadCopiesBytesRead ==
    /\ rd.pc # "idle" =>
          rd.remoteCalls = <<[method |-> "read", fd |-> rd.fd, pos |-> rd.pos,
                              length |-> rd.length]>>
    /\ rd.pc = "awaiting" => rd.data = rd.dataAtCall
    /\ ( /\ rd.pc = "replied"
         /\ rd.bytesRead <= Len(rd.bytes)
         /\ rd.offset + rd.bytesRead <= Len(rd.dataAtCall) )
       => /\ rd.result = Resolved(rd.bytesRead)
          /\ Len(rd.data) = Len(rd.dataAtCall)
          /\ \A i \in 1..Len(rd.data) :
                rd.data[i] = IF rd.offset < i /\ i <= rd.offset + rd.bytesRead
                             THEN rd.bytes[i - rd.offset]
                             ELSE rd.dataAtCall[i]

\* C7 witness: the remote replied a buffer of 2 bytes with bytesRead = 1 to a
\* read of length 2 at offset 1; one byte changed and 1 was returned
C7_Witness ==
    /\ rd.pc = "replied"
    /\ rd.offset = 1
    /\ rd.length = 2
    /\ Len(rd.bytes) = 2
    /\ rd.bytesRead = 1
    /\ rd.result = Resolved(1)
    /\ rd.data[2] # rd.dataAtCall[2]
    /\ rd.bytes[2] # rd.data[3]

CallsWith(method, req) ==
    Cardinality({i \in 1..Len(channelCalls) :
                    channelCalls[i].method = method /\ channelCalls[i].req = req})

UsedWatchIds == {i \in WatchIds : ipcHandles[i].state # "unused"}

\* C8: every watch and unwatch call carries the session id; the request ids
\* of different watch() calls differ; a disposed handle has issued exactly one
\* unwatch call, with its own request id, and a handle that is not disposed
\* has issued none.
C8_WatchUnwatchCorrelate ==
    /\ \A i \in 1..Len(channelCalls) : channelCalls[i].session = sessionId
    /\ \A i, j \in UsedWatchIds : i # j => ipcHandles[i].req # ipcHandles[j].req
    /\ \A i \in UsedWatchIds :
          /\ ipcHandles[i].req # sessionId
          /\ CallsWith("watch", ipcHandles[i].req) = 1
          /\ CallsWith("unwatch", ipcHandles[i].req) =
                 IF ipcHandles[i].state = "disposed" THEN 1 ELSE 0
    /\ Len(channelCalls) =
          Cardinality(UsedWatchIds) +
          Cardinality({i \in WatchIds : ipcHandles[i].state = "disposed"})

\* C8 witness: two watch() calls, the first handle disposed, the second not
C8_Witness ==
    /\ ipcHandles[1].state = "disposed"
    /\ ipcHandles[2].state = "live"
    /\ channelCalls[Len(channelCalls)] = UnwatchCall(sessionId, ipcHandles[1].req)
    /\ CallsWith("unwatch", ipcHandles[2].req) = 0

LiveNonRecIds == {i \in NonRecIds : nonRecWatchers[i].state = "live"}

\* C9: every active watcher (the recursive one, and each non-recursive one whose
\* handle is not disposed) has verbose logging equal to (log level = Trace),
\* at construction and after every log-level change; a log-level change creates
\* and disposes no watcher.
C9_VerbosityFollowsLogLevel ==
    /\ [](/\ (recursiveWatcher.exists /\ ~recursiveWatcher.disposed)
               => recursiveWatcher.verboseLogging = IsVerbose(logLevel)
          /\ \A i \in LiveNonRecIds :
               nonRecWatchers[i].verboseLogging = IsVerbose(logLevel))
    /\ [][logLevel' # logLevel =>
             /\ recursiveWatcher'.exists = recursiveWatcher.exists
             /\ recursiveWatcher'.disposed = recursiveWatcher.disposed
             /\ watcherCreations' = watcherCreations
             /\ watcherDisposals' = watcherDisposals
             /\ \A i \in NonRecIds : nonRecWatchers'[i].state = nonRecWatchers[i].state]_vars

\* C9 witness: a recursive and a non-recursive watcher, both constructed
\* without verbose logging, are verbose after the level changed to Trace
C9_Witness ==
    /\ logLevel = "Trace"
    /\ recursiveWatcher.exists
    /\ ~recursiveWatcher.disposed
    /\ ~recursiveWatcher.verboseAtConstruction
    /\ recursiveWatcher.verboseLogging
    /\ \E i \in LiveNonRecIds :
          /\ ~nonRecWatchers[i].verboseAtConstruction
          /\ nonRecWatchers[i].verboseLogging

\* C10: while the provider is not disposed, a recursive watcher that was
\* constructed still exists, was constructed once and is not disposed, also
\* with an empty registry; a reconciliation that ran with an empty registry
\* gave the existing watcher the empty list.
C10_WatcherIsSticky ==
    ~isDisposed =>
        /\ watcherCreations <= 1
        /\ watcherDisposals = 0
        /\ watcherCreations = 1 => (recursiveWatcher.exists /\ ~recursiveWatcher.disposed)
        /\ (recursiveWatcher.exists /\ reconcileRuns > 0 /\ registryAtLastRefresh = <<>>)
               => recursiveWatcher.folders = <<>>

\* C10 witness: every handle is disposed, reconciliation ran on the empty
\* registry, and the watcher is still there with the empty list
C10_Witness ==
    /\ ~isDisposed
    /\ recursiveFoldersToWatch = <<>>
    /\ \A i \in RecIds : recHandles[i].state = "disposed"
    /\ ~delayerScheduled
    /\ reconcileRuns >= 2
    /\ recursiveWatcher.exists
    /\ ~recursiveWatcher.disposed
    /\ recursiveWatcher.folders = <<>>

\* C11: the factory of the recursive watcher is called at most once, over
\* every sequence of watch() calls, disposals and reconciliations, so at most
\* one recursive watcher exists; the field holds a watcher exactly when the
\* factory was called.
C11_AtMostOneRecursiveWatcher ==
    /\ watcherCreations <= 1
    /\ watcherDisposals <= watcherCreations
    /\ recursiveWatcher.exists <=> watcherCreations = 1

\* C11 witness: three reconciliations ran, the last two with a watcher in
\* place and a non-empty registry, and the factory was called once
C11_Witness ==
    /\ reconcileRuns >= 3
    /\ Len(registryAtLastRefresh) > 0
    /\ recursiveWatcher.exists
    /\ watcherCreations = 1

SecondDisposalStep ==
    \E i \in RecIds :
        recHandles[i].state = "disposed" /\ recHandles'[i].state = "disposedTwice"

\* C12: a second dispose() of a recursive watch handle is a no-op: the step
\* changes neither the registry nor the watcher and schedules no
\* reconciliation; the registry keeps one entry for every handle that is not
\* disposed (also one equal to the disposed request) and none for the others.
C12_SecondDisposeIsNoOp ==
    /\ [](\A i \in RecIds :
             EntriesOf(recursiveFoldersToWatch, i) =
                 IF recHandles[i].state = "live" THEN 1 ELSE 0)
    /\ [][SecondDisposalStep =>
             UNCHANGED <<recursiveFoldersToWatch, recursiveWatcher, delayerScheduled,
                         reconcileRuns>>]_vars

\* C12 witness: the first of two equal requests was disposed twice after the
\* reconciliation; the registry and the watcher hold the second request
C12_Witness ==
    /\ recHandles[1].state = "disposedTwice"
    /\ recHandles[2].state = "live"
    /\ SameRequest(recHandles[1], recHandles[2])
    /\ ~delayerScheduled
    /\ ~isDisposed
    /\ recursiveWatcher.exists
    /\ Len(recursiveFoldersToWatch) = 1
    /\ recursiveFoldersToWatch[1].id = 2
    /\ recursiveWatcher.folders = recursiveFoldersToWatch

\* C13: when an error payload is the first end marker or error to arrive and
\* the token had not fired before it, the stream holds the chunks before it,
\* then exactly one error and then its end, and the remote listener was
\* disposed after the stream had ended; the error is the payload itself when
\* it is an Error object and otherwise an error with code Unknown whose
\* message is the text of the payload.
C13_ErrorPayloadForwarded ==
    \A c \in CallIds :
        LET got == Arrived(calls[c])
        IN  (/\ calls[c].status = "reading"
             /\ HasTerminal(got)
             /\ got[FirstTerminal(got)].type = "error"
             /\ calls[c].token = "cancelled" => calls[c].cancelAt >= FirstTerminal(got)) =>
                LET payload == got[FirstTerminal(got)]
                    error == IF payload.isError
                             THEN ErrorEvent(payload.val, payload.code)
                             ELSE ErrorEvent(payload.val, "Unknown")
                IN  /\ calls[c].stream.events = ChunksOf(got) \o <<error, EndEvent>>
                    /\ TypeCount(calls[c].stream.events, "error") = 1
                    /\ calls[c].stream.closed
                    /\ calls[c].listener = "disposed"
                    /\ calls[c].disposeCalls >= 1
                    /\ calls[c].closedAtDispose

\* C13 witness: a chunk and then a value that is not an Error object arrived
C13_Witness ==
    /\ calls[1].token = "idle"
    /\ calls[1].sent = <<ChunkPayload("A"), CHOOSE p \in ErrorPayloads : ~p.isError>>
    /\ calls[1].arrived = 2
    /\ calls[1].stream.events = <<DataEvent("A"), ErrorEvent("broken", "Unknown"), EndEvent>>
    /\ calls[1].listener = "disposed"
    /\ calls[1].closedAtDispose

\* C14 as stated: the registry never holds two requests with the same path
\* and the same excludes.
C14_NoEqualRequests ==
    \A i, j \in 1..Len(recursiveFoldersToWatch) :
        i # j => ~SameRequest(recursiveFoldersToWatch[i], recursiveFoldersToWatch[j])

\* C14 amended: the registry holds exactly one entry for every recursive
\* watch() handle that is not disposed, with the path and excludes of that
\* call, in the order of the calls, and nothing else; a request equal to one
\* the registry holds gets an entry of its own.
C14_OneEntryPerLiveHandle ==
    /\ Len(recursiveFoldersToWatch) = Cardinality(LiveRecIds)
    /\ \A i \in LiveRecIds :
           \E k \in 1..Len(recursiveFoldersToWatch) :
               /\ recursiveFoldersToWatch[k] =
                      IWatchRequest(i, recHandles[i].path, recHandles[i].excludes)
               /\ \A l \in 1..Len(recursiveFoldersToWatch) :
                      recursiveFoldersToWatch[l].id = i => l = k
    /\ \A k, l \in 1..Len(recursiveFoldersToWatch) :
           k < l => recursiveFoldersToWatch[k].id < recursiveFoldersToWatch[l].id

\* C14 witness: two live handles of equal requests, two entries
C14_Witness ==
    /\ recHandles[1].state = "live"
    /\ recHandles[2].state = "live"
    /\ SameRequest(recHandles[1], recHandles[2])
    /\ Len(recursiveFoldersToWatch) = 2
    /\ SameRequest(recursiveFoldersToWatch[1], recursiveFoldersToWatch[2])

ErrorMessages(messages) ==
    LET errors == SelectSeq(messages, LAMBDA m : m.type = "error")
    IN  [i \in 1..Len(errors) |-> errors[i].message]

\* C15: every log message a watcher reported was passed to the logService
\* method named by its kind, in the order reported, and _onDidErrorOccur was
\* fired once for every message of kind 'error', with its text, and for no
\* other message.
C15_LogMessagesRouted ==
    /\ logSink = [i \in 1..Len(watcherMessages) |->
                     [method |-> watcherMessages[i].type,
                      message |-> watcherMessages[i].message]]
    /\ errorsFired = ErrorMessages(watcherMessages)

\* C15 witness: the recursive watcher or a non-recursive one reported a
\* warning and then an error
C15_Witness ==
    /\ Len(watcherMessages) = 2
    /\ watcherMessages[1].type = "warn"
    /\ watcherMessages[2].type = "error"
    /\ errorsFired = <<"e1">>
    /\ Len(logSink) = 2

\* C16: a non-recursive watch() has made its watcher and its log-level
\* listener when it returns; the live non-recursive watchers are those of the
\* handles not disposed; disposing a handle disposes its watcher and its
\* listener in one step and changes no other watcher, and nothing calls the
\* verbosity setter of a disposed watcher or changes it afterwards.
C16_NonRecursiveWatchers ==
    /\ [](/\ \A i \in NonRecIds :
                /\ nonRecWatchers[i].state = "live" =>
                       nonRecWatchers[i].watching /\ nonRecWatchers[i].listening
                /\ nonRecWatchers[i].state # "live" =>
                       ~nonRecWatchers[i].watching /\ ~nonRecWatchers[i].listening
                /\ ~nonRecWatchers[i].setAfterDispose
          /\ Cardinality({i \in NonRecIds : nonRecWatchers[i].watching})
                 = Cardinality(LiveNonRecIds))
    /\ [][\A i \in NonRecIds :
              /\ nonRecWatchers[i].state = "disposed" =>
                     nonRecWatchers'[i] = nonRecWatchers[i]
              /\ (nonRecWatchers[i].state = "live" /\ nonRecWatchers'[i].state = "disposed") =>
                     \A j \in NonRecIds \ {i} : nonRecWatchers'[j] = nonRecWatchers[j]]_vars

\* C16 witness: the first watcher was made below Trace and disposed, then the
\* level went to Trace: the second watcher is verbose, the first was not called
C16_Witness ==
    /\ nonRecWatchers[1].state = "disposed"
    /\ ~nonRecWatchers[1].verboseAtConstruction
    /\ ~nonRecWatchers[1].verboseLogging
    /\ nonRecWatchers[2].state = "live"
    /\ ~nonRecWatchers[2].verboseAtConstruction
    /\ nonRecWatchers[2].verboseLogging
    /\ logLevel = "Trace"

FileChangeListens ==
    {i \in 1..Len(channelListens) : channelListens[i].event = "filechange"}

\* C17: the session id never changes, and the channel has exactly one
\* 'filechange' listener, the first listener made, keyed by the session id;
\* no step adds a 'filechange' listener.
C17_OneSessionOneStream ==
    /\ [](/\ FileChangeListens = {1}
          /\ channelListens[1] = Listen("filechange", sessionId))
    /\ [][sessionId' = sessionId]_vars
    /\ [][\A i \in 1..Len(channelListens') :
              channelListens'[i].event = "filechange" => i \in FileChangeListens]_vars

\* C17 witness: after a watch(), the disposal of its handle and two streaming
\* reads the only 'filechange' listener is the one of the constructor
C17_Witness ==
    /\ ipcHandles[1].state = "disposed"
    /\ Len(channelCalls) = 2
    /\ Len(channelListens) = 3
    /\ channelListens[1] = Listen("filechange", sessionId)
    /\ channelCalls[1].session = sessionId

\* C18: the fire()s of the two public events are, in order, one per payload
\* received on 'filechange': for an array one batch on onDidChangeFile with as
\* many events, in the same order, with the same types and the revived
\* resources, and for a string that string on onDidErrorOccur.
C18_PayloadsRouted ==
    /\ Len(emissions) = Len(fileChangePayloads)
    /\ \A k \in 1..Len(fileChangePayloads) :
           LET payload == fileChangePayloads[k]
               emitted == emissions[k]
           IN  IF payload.isArray
               THEN /\ emitted.event = "onDidChangeFile"
                    /\ Len(emitted.batch) = Len(payload.events)
                    /\ \A i \in 1..Len(payload.events) :
                           /\ emitted.batch[i].type = payload.events[i].type
                           /\ emitted.batch[i].resource.isUri
                           /\ emitted.batch[i].resource.path = payload.events[i].resource.path
               ELSE emitted = ErrorEmission(payload.error)

\* C18 witness: a batch of two events, an error string and an empty batch
C18_Witness ==
    /\ Len(fileChangePayloads) = 3
    /\ Len(fileChangePayloads[1].events) = 2
    /\ fileChangePayloads[1].events[1].type = "DELETED"
    /\ fileChangePayloads[1].events[2].type = "UPDATED"
    /\ ~fileChangePayloads[2].isArray
    /\ fileChangePayloads[3] = ArrayPayload(<<>>)
    /\ emissions[2].event = "onDidErrorOccur"
    /\ emissions[3] = ChangeEmission(<<>>)

\* C19: every call of one of the ten operations has made exactly one remote
\* call, whatever its arguments, with the name of the operation as method;
\* while the remote has not settled the call the operation is pending, and
\* once it has, the operation has completed with the remote's result or
\* failure.
C19_OperationsPassThrough ==
    /\ Len(opCalls) = Len(opsStarted)
    /\ \A k \in 1..Len(opsStarted) : opCalls[k].method = opsStarted[k].name
    /\ op.pc = "awaiting" => op.result = PendingOutcome
    /\ op.pc = "settled" => (op.remote \in RemoteOutcomes /\ op.result = op.remote)

\* C19 witness: a stat that the remote resolved, then a rename with arguments
\* the remote refuses, which it rejected
C19_Witness ==
    /\ Len(opsStarted) = 2
    /\ opsStarted[1].name = "stat"
    /\ opsStarted[2] = [name |-> "rename", args |-> RefusedArgs]
    /\ opCalls[2].method = "rename"
    /\ op.pc = "settled"
    /\ op.result = [kind |-> "rejected", value |-> "ENOENT"]

\* C20 as stated: no failure is lost: a rejected 'watch' or 'unwatch' call has
\* a handler that returns the failure to the caller or the failure was fired
\* on onDidErrorOccur, and a rejected file operation has completed with the
\* failure.
C20_NoFailureLost ==
    /\ \A k \in 1..Len(channelCalls) :
           callOutcomes[k] = "rejected" =>
               \/ k \notin unhandledRejections
               \/ \E i \in 1..Len(emissions) : emissions[i] = ErrorEmission(WatchFailure)
    /\ (op.pc = "settled" /\ op.remote.kind = "rejected") => op.result = op.remote

\* C21: the capability set always holds the five flags it starts with, and
\* holds PathCaseSensitive exactly when setCaseSensitive was called and its
\* last call was given true; there is one capability-changed notification per
\* setCaseSensitive call, and only a setCaseSensitive call changes the set.
C21_CapabilitiesFollowCaseSensitive ==
    /\ [](/\ InitialCapabilities \subseteq capabilities
          /\ capabilities \subseteq InitialCapabilities \cup {"PathCaseSensitive"}
          /\ "PathCaseSensitive" \in capabilities <=>
                 /\ Len(caseSensitiveCalls) > 0
                 /\ caseSensitiveCalls[Len(caseSensitiveCalls)]
          /\ capabilityNotifications = Len(caseSensitiveCalls))
    /\ [][capabilities' # capabilities =>
              Len(caseSensitiveCalls') = Len(caseSensitiveCalls) + 1]_vars

\* C21 witness: set, cleared by the second call, and a file operation after it
C21_Witness ==
    /\ caseSensitiveCalls = <<TRUE, FALSE>>
    /\ capabilities = InitialCapabilities
    /\ capabilityNotifications = 2
    /\ Len(opCalls) > 0

OpRejectedStep ==
    op.pc = "awaiting" /\ op'.pc = "settled" /\ op'.remote.kind = "rejected"

StreamFailedStep ==
    \E c \in CallIds :
        TypeCount(calls'[c].stream.events, "error") > TypeCount(calls[c].stream.events, "error")

WatcherErrorStep == Len(errorsFired') > Len(errorsFired)

\* C22: a step in which a file operation is rejected or a streaming read fails
\* changes neither the session id, the channel listeners, the capability set
\* nor the calls and handles of the provider; a step in which a watcher
\* reports an error changes neither the registry, the recursive watcher nor
\* the pending reconciliation. Afterwards operations behave as always: every
\* file operation has made its one call, and a watcher with no reconciliation
\* pending has the registry.
C22_FailuresLeaveComponentsUsable ==
    /\ [][(OpRejectedStep \/ StreamFailedStep) =>
              UNCHANGED <<sessionId, channelListens, capabilities, capabilityNotifications,
                          uuidsGenerated, channelCalls, ipcHandles, opCalls, opsStarted>>]_vars
    /\ [][WatcherErrorStep =>
              UNCHANGED <<recursiveFoldersToWatch, recHandles, recursiveWatcher,
                          recLogListener, delayerScheduled, isDisposed>>]_vars
    /\ [](/\ Len(opCalls) = Len(opsStarted)
          /\ op.pc \in {"idle", "settled"} => ENABLED FileOp("stat", UsableArgs)
                                                  \/ Len(opsStarted) = MaxOps
          /\ (recursiveWatcher.exists /\ ~delayerScheduled) =>
                 /\ recursiveWatcher.folders = recursiveFoldersToWatch
                 /\ ~recursiveWatcher.disposed)

\* C22 witness: a rejected stat followed by another stat, a streaming read that
\* failed, and an error message of the recursive watcher, which still has the
\* registry
C22_Witness ==
    /\ Len(opsStarted) = 2
    /\ Len(opCalls) = 2
    /\ op.pc = "settled"
    /\ op.remote.kind = "rejected"
    /\ TypeCount(calls[1].stream.events, "error") = 1
    /\ errorsFired = <<"e1">>
    /\ recursiveWatcher.exists
    /\ ~recursiveWatcher.disposed
    /\ recursiveWatcher.folders = recursiveFoldersToWatch
    /\ Len(channelListens) = 2
    /\ "PathCaseSensitive" \in capabilities

RegistryMutationStep == recursiveFoldersToWatch' # recursiveFoldersToWatch

\* C23: a turn that mutated the registry of a provider that is not disposed is
\* followed, unless the provider is disposed, by a state between turns in
\* which no reconciliation is pending and the last run saw the registry as it
\* is; a step that mutates the registry runs no reconciliation, and a
\* reconciliation runs between turns and mutates nothing.
C23_MutationLeadsToReconciliation ==
    /\ [](turnMutated /\ ~isDisposed =>
             <>(\/ isDisposed
                \/ /\ turn = "idle"
                   /\ ~delayerScheduled
                   /\ reconcileRuns > 0
                   /\ registryAtLastRefresh = recursiveFoldersToWatch))
    /\ [][RegistryMutationStep => reconcileRuns' = reconcileRuns /\ turn = "caller"]_vars
    /\ [][reconcileRuns' # reconcileRuns =>
              turn = "idle" /\ ~RegistryMutationStep /\ ~turnMutated]_vars

\* C23 witness: a request added and retracted in later turns, each followed by
\* a run; the last run saw the empty registry
C23_Witness ==
    /\ ~isDisposed
    /\ mutationTurns = 2
    /\ reconcileRuns = 2
    /\ recHandles[1].state = "disposed"
    /\ recursiveFoldersToWatch = <<>>
    /\ registryAtLastRefresh = <<>>
    /\ recursiveWatcher.exists
    /\ recursiveWatcher.folders = <<>>
    /\ ~delayerScheduled

WatchIssuedBefore(k) ==
    \E j \in 1..(k - 1) :
        /\ channelCalls[j].method = "watch"
        /\ channelCalls[j].req = channelCalls[k].req
        /\ channelCalls[j].session = channelCalls[k].session

\* C24: a handle goes from unused to live and from live to disposed only; the
\* step that makes it live is the step that issues the 'watch' call of its
\* request, as the last call so far; and every 'unwatch' call comes after a
\* 'watch' call with the same request id and the same session id.
C24_SubscriptionLifecycle ==
    /\ [](\A k \in 1..Len(channelCalls) :
             channelCalls[k].method = "unwatch" => WatchIssuedBefore(k))
    /\ [][\A i \in WatchIds :
              ipcHandles'[i].state # ipcHandles[i].state =>
                  \/ /\ ipcHandles[i].state = "unused"
                     /\ ipcHandles'[i].state = "live"
                     /\ Len(channelCalls') = Len(channelCalls) + 1
                     /\ channelCalls'[Len(channelCalls')].method = "watch"
                     /\ channelCalls'[Len(channelCalls')].req = ipcHandles'[i].req
                     /\ channelCalls'[Len(channelCalls')].session = sessionId
                  \/ /\ ipcHandles[i].state = "live"
                     /\ ipcHandles'[i].state = "disposed"
                     /\ ipcHandles'[i].req = ipcHandles[i].req]_vars

\* C24 witness: the second of three subscriptions is disposed, after the
\* third was requested; its 'unwatch' is the last call
C24_Witness ==
    /\ ipcHandles[1].state = "live"
    /\ ipcHandles[2].state = "disposed"
    /\ ipcHandles[3].state = "live"
    /\ Len(channelCalls) = 4
    /\ channelCalls[2].method = "watch"
    /\ channelCalls[4] = UnwatchCall(sessionId, channelCalls[2].req)

\* C25: once an end marker or an error payload has arrived on the event stream
\* of a call, a step in which a further payload arrives leaves the output
\* stream of the call as it is and calls nothing on the stream or the
\* listener: the listener is disposed and stays so, with no further dispose().
C25_NothingAfterTerminal ==
    [][\A c \in CallIds :
           (/\ calls[c].status = "reading"
            /\ HasTerminal(Arrived(calls[c]))
            /\ calls'[c].arrived > calls[c].arrived) =>
               /\ calls'[c].stream = calls[c].stream
               /\ calls[c].stream.closed
               /\ calls[c].listener = "disposed"
               /\ calls'[c].listener = "disposed"
               /\ calls'[c].disposeCalls = calls[c].disposeCalls]_vars

\* C25 witness: an error, then a chunk and an end marker arrived; the stream
\* holds the error and its end only
C25_Witness ==
    /\ calls[1].token = "idle"
    /\ calls[1].arrived = 3
    /\ calls[1].sent[1].type = "error"
    /\ calls[1].sent[2] = ChunkPayload("A")
    /\ calls[1].sent[3] = EndPayload
    /\ Len(calls[1].stream.events) = 2
    /\ calls[1].stream.events[2] = EndEvent
    /\ calls[1].disposeCalls = 1

PayloadStep == Len(fileChangePayloads') > Len(fileChangePayloads)

\* C26: until the provider is disposed a payload can arrive on 'filechange',
\* whatever the handles are; the step in which one arrives fires one public
\* event for it (onDidChangeFile for an array, onDidErrorOccur for a string),
\* also with no handle undisposed, and changes no handle and makes no call.
C26_NoLocalFiltering ==
    /\ [](/\ Len(emissions) = Len(fileChangePayloads)
          /\ (~ipcDisposed /\ Len(fileChangePayloads) < MaxFileChanges) =>
                 ENABLED FileChange(StringPayload("watcher failed")))
    /\ [][PayloadStep =>
              LET payload == fileChangePayloads'[Len(fileChangePayloads')]
                  emitted == emissions'[Len(emissions')]
              IN  /\ ~ipcDisposed
                  /\ Len(emissions') = Len(emissions) + 1
                  /\ emitted.event =
                         IF payload.isArray THEN "onDidChangeFile" ELSE "onDidErrorOccur"
                  /\ Len(emitted.batch) = Len(payload.events)
                  /\ emitted.error = payload.error
                  /\ UNCHANGED <<ipcHandles, channelCalls, uuidsGenerated>>]_vars

\* C26 witness: payloads arrived before the first watch(), while its handle
\* was live and after it was disposed, and each was emitted
C26_Witness ==
    /\ liveAtReceipt = <<{}, {1}, {}>>
    /\ ipcHandles[1].state = "disposed"
    /\ Len(emissions) = 3
    /\ emissions[1].event = "onDidErrorOccur"
    /\ emissions[3].event = "onDidChangeFile"

\* C27: the watcher is constructed only in a step that is a reconciliation run
\* on a non-empty registry, which it is given; a run that finds no watcher and
\* an empty registry constructs none and attaches no log-level listener; so
\* without a watcher there is no log-level listener.
C27_WatcherOnlyForNonEmptyRegistry ==
    /\ [](~recursiveWatcher.exists => (recLogListener = "none" /\ watcherCreations = 0))
    /\ [][watcherCreations' # watcherCreations =>
              /\ reconcileRuns' = reconcileRuns + 1
              /\ Len(recursiveFoldersToWatch) > 0
              /\ ~recursiveWatcher.exists
              /\ recursiveWatcher'.folders = recursiveFoldersToWatch]_vars
    /\ [][(/\ reconcileRuns' # reconcileRuns
           /\ ~recursiveWatcher.exists
           /\ Len(recursiveFoldersToWatch) = 0) =>
              /\ ~recursiveWatcher'.exists
              /\ recLogListener' = "none"
              /\ watcherCreations' = 0]_vars

\* C27 witness: two requests were made and retracted in one turn, the run
\* that followed made no watcher
C27_Witness ==
    /\ recHandles[1].state = "disposed"
    /\ recHandles[2].state = "disposed"
    /\ mutationTurns = 1
    /\ reconcileRuns = 1
    /\ ~delayerScheduled
    /\ ~isDisposed
    /\ ~recursiveWatcher.exists
    /\ recLogListener = "none"
    /\ watcherCreations = 0

LaterDisposalStep ==
    \E i \in WatchIds :
        /\ ipcHandles[i].state = "disposed"
        /\ ipcHandles'[i].state = "disposedTwice"

\* C28: no request id has more than one 'unwatch' call: a handle that was
\* disposed, once or more often, has issued exactly one, a handle that was
\* not has issued none, and a dispose() after the first issues no call.
C28_AtMostOneUnwatch ==
    /\ [](\A i \in UsedWatchIds :
             /\ CallsWith("unwatch", ipcHandles[i].req) <= 1
             /\ CallsWith("unwatch", ipcHandles[i].req) = 1 <=> ipcHandles[i].state # "live")
    /\ [][LaterDisposalStep => UNCHANGED <<channelCalls, uuidsGenerated, sessionId>>]_vars

\* C28 witness: the first handle was disposed more than once while a second
\* subscription is live; there is one 'unwatch', for the first request
C28_Witness ==
    /\ ipcHandles[1].state = "disposedTwice"
    /\ ipcHandles[2].state = "live"
    /\ CallsWith("unwatch", ipcHandles[1].req) = 1
    /\ CallsWith("unwatch", ipcHandles[2].req) = 0
    /\ Len(channelCalls) = 3

ReadStreamListens ==
    {i \in 1..Len(channelListens) : channelListens[i].event = "readFileStream"}

\* C29: every call has a remote listener of its own; the stream of a call
\* holds only chunks the remote emitted for that call; and a step changes the
\* stream, the listener and the token of one call at most, so what arrives
\* for one call, or its cancellation, leaves the other call as it is.
C29_CallsAreIndependent ==
    /\ [](/\ Cardinality(ReadStreamListens) =
                 Cardinality({c \in CallIds : calls[c].status = "reading"})
          /\ \A c \in CallIds :
                 \A i \in 1..Len(calls[c].stream.events) :
                     calls[c].stream.events[i].type = "data" =>
                         \E k \in 1..calls[c].arrived :
                             calls[c].sent[k] = ChunkPayload(calls[c].stream.events[i].val))
    /\ [][\A c, d \in CallIds :
              (c # d /\ calls'[c] # calls[c]) => calls'[d] = calls[d]]_vars

\* C29 witness: both calls had a chunk; the first was cancelled while the
\* second goes on listening, with its own chunk only
C29_Witness ==
    /\ calls[1].token = "cancelled"
    /\ calls[1].stream.events = <<DataEvent("A"), canceled, EndEvent>>
    /\ calls[1].listener = "disposed"
    /\ calls[2].token = "idle"
    /\ calls[2].listener = "listening"
    /\ calls[2].stream.events = <<DataEvent("B")>>
    /\ ~calls[2].stream.closed
    /\ calls[2].arrived = 1

C31_NonRecursiveOutliveProvider ==
    /\ [](\A i \in NonRecIds :
             nonRecWatchers[i].state = "live" =>
                 /\ nonRecWatchers[i].watching
                 /\ nonRecWatchers[i].listening
                 /\ nonRecWatchers[i].verboseLogging = IsVerbose(logLevel))
    /\ [][\A i \in NonRecIds :
              (\/ nonRecWatchers[i].watching /\ ~nonRecWatchers'[i].watching
               \/ nonRecWatchers[i].listening /\ ~nonRecWatchers'[i].listening) =>
                  /\ nonRecWatchers[i].state = "live"
                  /\ nonRecWatchers'[i].state = "disposed"]_vars
    /\ [][(~isDisposed /\ isDisposed') => nonRecWatchers' = nonRecWatchers]_vars

\* C31 witness: the provider is disposed; the first watcher, made below Trace,
\* is active and verbose at level Trace; the handle of the second was disposed
C31_Witness ==
    /\ isDisposed
    /\ nonRecWatchers[1].state = "live"
    /\ nonRecWatchers[1].watching
    /\ nonRecWatchers[1].listening
    /\ ~nonRecWatchers[1].verboseAtConstruction
    /\ nonRecWatchers[1].verboseLogging
    /\ logLevel = "Trace"
    /\ nonRecWatchers[2].state = "disposed"
    /\ ~nonRecWatchers[2].watching

=============================================================================
